---- MODULE Spec2Model ----
(***************************************************************************)
(* faiss-wrap vector store (src/004-RAG/faiss-wrap/backend/main.py):       *)
(* the process-wide pair _index / _meta_df, the lock _lock, the two        *)
(* persisted files, and the request handlers upsert, search and reset run  *)
(* by concurrent worker threads.                                           *)
(* chatbot-RAG backend (src/004-RAG/chatbot-RAG/backend/main.py): the      *)
(* chat request from retrieval to the messages forwarded to the model.     *)
(* ingest script (src/004-RAG/ingest/ingest.py): chunking of the pages of  *)
(* each PDF, the worker pool, the upsert batches and the manifest.         *)
(***************************************************************************)
EXTENDS Integers, Sequences, FiniteSets, TLC

(* ---------------------------------------------------------------- bounds *)
\* longest item list of one upsert request
MaxItems == 2
\* number of upsert and reset requests started in one behaviour
MaxMutations == 2
\* number of search requests started in one behaviour
MaxSearches == 1

(* ---------------------------------------------------------------- inputs *)
Clients == {"c1", "c2"}
Ids == {"x", "y"}
Texts == {"alpha", "beta"}
\* UpsertItem.text with UpsertItem.metadata (Optional[Dict]): "none" is None,
\* "src1" a non-empty dict
Payloads == {<<"alpha", "none">>, <<"beta", "src1">>}
Items == {[id |-> i, text |-> p[1], metadata |-> p[2]] : i \in Ids, p \in Payloads}
ItemLists == UNION {[1..n -> Items] : n \in 0..MaxItems}
\* SearchRequest.query: the texts, the empty query and a whitespace-only query
Queries == Texts \cup {"", " "}
\* SearchRequest.top_k
TopKs == {0, 2}
\* the endpoints that test "_model is None or _index is None or _meta_df is None"
Handlers == {"upsert", "search", "reset"}
\* EMBED_MODEL: the default model and another one
Models == {"bge-m3", "other"}

(* ------------------------------------------------------------- embedding *)
\* _model.encode: a fixed vector per text (not unit length)
Encode(t) ==
  CASE t = "alpha" -> <<6, 8>>
    [] t = "beta"  -> <<8, 6>>
    [] t = "gamma" -> <<0, 10>>
    [] OTHER       -> <<10, 0>>

Isqrt(n) == CHOOSE r \in 0..n : r * r <= n /\ n < (r + 1) * (r + 1)

\* faiss.normalize_L2: scale to unit length; the unit is 5, so that the
\* normalized vectors stay integral and inner products are in 1/25
Normalize(v) ==
  LET n == Isqrt(v[1] * v[1] + v[2] * v[2])
  IN  IF n = 0 THEN v ELSE <<(v[1] * 5) \div n, (v[2] * 5) \div n>>

\* _embed(texts) followed by faiss.normalize_L2(embs)
EmbedAll(ts) == [i \in 1..Len(ts) |-> Normalize(Encode(ts[i]))]

InnerProduct(a, b) == a[1] * b[1] + a[2] * b[2]

(* --------------------------------------------------------- upsert pieces *)
IdsOf(its) == {its[i].id : i \in 1..Len(its)}

TextsOf(rows) == [i \in 1..Len(rows) |-> rows[i].text]

\* it.metadata or {}
OrEmpty(m) == IF m = "none" THEN "empty" ELSE m

\* new_df = pd.DataFrame({"id": ids, "text": texts, "metadata": metas})
NewRows(its) ==
  [i \in 1..Len(its) |->
     [id |-> its[i].id, text |-> its[i].text, metadata |-> OrEmpty(its[i].metadata)]]

RECURSIVE Filter(_, _)
Filter(rows, ids) ==
  IF rows = <<>> THEN <<>>
  ELSE IF Head(rows).id \in ids THEN Filter(Tail(rows), ids)
       ELSE <<Head(rows)>> \o Filter(Tail(rows), ids)

\* existing_mask.any()
AnyExisting(rows, ids) == \E i \in 1..Len(rows) : rows[i].id \in ids

\* the rows that stay come back in reverse order
Remaining_Reversed(rows, ids) ==
  [i \in 1..Len(Filter(rows, ids)) |->
     Filter(rows, ids)[Len(Filter(rows, ids)) + 1 - i]]

\* the mask is not applied: the rows of the ids being replaced stay
Remaining_KeepsAll(rows, ids) == rows

\* remaining = _meta_df[~existing_mask]
Remaining(rows, ids) == Filter(rows, ids)

\* the metadata sequence one whole upsert call leaves (lines 171-205)
UpsertResult(rows, its) ==
  IF its = <<>> THEN rows ELSE Remaining(rows, IdsOf(its)) \o NewRows(its)

(* --------------------------------------------------------- search pieces *)
\* req.query.strip(), on the queries of the model
Strip(q) == IF q = " " THEN "" ELSE q

\* the lower bound of the clamp is 0
ClampTopK_FloorZero(k) ==
  LET m == IF k < 50 THEN k ELSE 50
  IN  IF m > 0 THEN m ELSE 0

\* top_k = max(1, min(int(req.top_k), 50))
ClampTopK(k) ==
  LET m == IF k < 50 THEN k ELSE 50
  IN  IF m > 1 THEN m ELSE 1

\* the first k positions, whatever their scores
RECURSIVE IndexSearch_FirstK(_, _, _, _)
IndexSearch_FirstK(ix, qv, k, taken) ==
  IF k = 0 THEN <<>>
  ELSE LET cand == (1..Len(ix)) \ taken
       IN  IF cand = {}
           THEN <<[idx |-> -1, score |-> -1000]>> \o IndexSearch_FirstK(ix, qv, k - 1, taken)
           ELSE LET first == CHOOSE j \in cand : \A l \in cand : j <= l
                IN  <<[idx |-> first - 1, score |-> InnerProduct(qv, ix[first])]>>
                      \o IndexSearch_FirstK(ix, qv, k - 1, taken \cup {first})

\* _index.search(q_emb, top_k) of a flat inner-product index: the k best
\* positions (0-based) by inner product, best first; among equal scores the
\* lower position first; padded with position -1 when fewer than k vectors
\* are stored
RECURSIVE IndexSearch(_, _, _, _)
IndexSearch(ix, qv, k, taken) ==
  IF k = 0 THEN <<>>
  ELSE LET cand == (1..Len(ix)) \ taken
       IN  IF cand = {}
           THEN <<[idx |-> -1, score |-> -1000]>> \o IndexSearch(ix, qv, k - 1, taken)
           ELSE LET best == CHOOSE j \in cand : \A l \in cand :
                              \/ InnerProduct(qv, ix[j]) > InnerProduct(qv, ix[l])
                              \/ /\ InnerProduct(qv, ix[j]) = InnerProduct(qv, ix[l])
                                 /\ j <= l
                IN  <<[idx |-> best - 1, score |-> InnerProduct(qv, ix[best])]>>
                      \o IndexSearch(ix, qv, k - 1, taken \cup {best})

\* the iterations of "for i in range(len(I[0]))" from cursor i on that read
\* nothing shared: entries with idx < 0 are skipped by the first test alone
RECURSIVE SkipNegative(_, _)
SkipNegative(hs, i) ==
  IF i <= Len(hs) /\ hs[i].idx < 0 THEN SkipNegative(hs, i + 1) ELSE i

(* ----------------------------------------------------------------- state *)
VARIABLES
  ready,      \* _model, _index and _meta_df are set (lifespan startup ran)
  index,      \* _index: the vectors of the flat index, in position order
  meta_df,    \* _meta_df: the rows id/text/metadata, in position order
  lock,       \* _lock: "free" or the client holding it
  disk,       \* INDEX_PATH and META_PATH: [exists, data] each
  pc,         \* where each request handler stands
  items,      \* upsert: req.items
  embs,       \* upsert: embs
  query,      \* search: req.query
  topk,       \* search: req.top_k
  hits,       \* search: D, I as a sequence of [idx, score]
  cursor,     \* search: the loop index i (1-based)
  results,    \* search: results
  ret,        \* what the handler returned or raised
  before,     \* history: _meta_df as the call found it when it took the lock
  committed,  \* history: len(_meta_df) when the call's mutation was complete
  calls,      \* number of upsert and reset requests started
  searches,   \* number of search requests started
  embed_model, \* MODEL_NAME: the model the environment names
  EMBED_DIM,  \* EMBED_DIM: 0 is None (no model loaded)
  index_d,    \* _index.d: the dimension of the index, 0 when _index is None
  handler,    \* the endpoint each worker is serving, "none" when idle
  encodes,    \* history: calls of _model.encode made by the current request
  cleared     \* history: reset emptied the store and no upsert has added since

store == <<ready, index, meta_df, lock, disk, pc, items, embs, query, topk,
           hits, cursor, results, ret, before, committed, calls, searches,
           embed_model, EMBED_DIM, index_d, handler, encodes, cleared>>

(* chatbot-RAG backend (src/004-RAG/chatbot-RAG/backend/main.py): the      *)
(* configuration and the locals of the one chat_endpoint call in progress. *)
(* Strings are sequences of characters; scores are in hundredths.          *)
VARIABLES
  RAG_MIN_SCORE,      \* RAG_MIN_SCORE, in hundredths
  MAX_CONTEXT_CHARS,  \* MAX_CONTEXT_CHARS
  chat_pc,            \* where chat_endpoint stands
  base_messages,      \* chat_endpoint: base_messages
  faiss,              \* history: what the POST to faiss-wrap /search gave
  retrieved,          \* chat_endpoint: retrieved
  context_block,      \* chat_endpoint: context_block
  num_chunks_sent,    \* chat_endpoint: num_chunks_sent
  messages_for_vllm,  \* chat_endpoint: messages_for_vllm
  chat_ret,           \* how the last chat request ended, "none" while one runs
  think_mode          \* request.think_mode as line 403 read it (default True)

chat == <<RAG_MIN_SCORE, MAX_CONTEXT_CHARS, chat_pc, base_messages, faiss,
          retrieved, context_block, num_chunks_sent, messages_for_vllm, chat_ret,
          think_mode>>

(* ingest script (src/004-RAG/ingest/ingest.py): the options and the locals *)
(* of the one run of main.                                                 *)
VARIABLES
  args,         \* main: args (dry_run, use_local, batch_size, max_chunks)
  pdf_sources,  \* main: pdf_sources
  pages_of,     \* what extract_pages gives for each source
  ing_pc,       \* where main stands
  futures,      \* main: futures, each pending, finished or merged
  all_chunks,   \* main: all_chunks
  batch_no,     \* main: the batches of the upsert loop that went through
  total,        \* main: total
  posted,       \* history: the bodies posted to /upsert, and how each went
  manifests,    \* history: the manifests uploaded
  ing_ret       \* how main ended, "none" while it runs

ingest == <<args, pdf_sources, pages_of, ing_pc, futures, all_chunks, batch_no,
            total, posted, manifests, ing_ret>>

(* lifespan of faiss-wrap (lines 137-141): where the shutdown stands,       *)
(* "running" until the server is told to stop.                             *)
VARIABLE life

\* what each program leaves alone: the other programs, and for the request
\* handlers of faiss-wrap the position of its lifespan
notStore == <<chat, ingest, life>>
notChat == <<store, ingest, life>>
notIngest == <<store, chat, life>>

vars == <<store, notStore>>

shared == <<ready, index, meta_df, lock, disk>>
budget == <<calls, searches>>
searchLocals == <<query, topk, hits, cursor, results>>
upsertLocals == <<items, embs, before, committed>>
embedder == <<embed_model, EMBED_DIM>>

\* _model.get_sentence_embedding_dimension() of each model
DimOf(m) == IF m = "bge-m3" THEN 2 ELSE 3

\* disk.d is the dimension written in the header of the index file
NoFile == [exists |-> FALSE, data |-> <<>>]
File(d) == [exists |-> TRUE, data |-> d]

NoRet == [status |-> "none", upserted |-> 0, hasTotal |-> FALSE, total |-> 0]
Raised(e) == [status |-> e, upserted |-> 0, hasTotal |-> FALSE, total |-> 0]

\* no request is being served and none was
WorkersIdle ==
  /\ lock = "free"
  /\ pc = [c \in Clients |-> "idle"]
  /\ items = [c \in Clients |-> <<>>]
  /\ embs = [c \in Clients |-> <<>>]
  /\ query = [c \in Clients |-> ""]
  /\ topk = [c \in Clients |-> 0]
  /\ hits = [c \in Clients |-> <<>>]
  /\ cursor = [c \in Clients |-> 0]
  /\ results = [c \in Clients |-> <<>>]
  /\ ret = [c \in Clients |-> NoRet]
  /\ before = [c \in Clients |-> <<>>]
  /\ committed = [c \in Clients |-> 0]
  /\ calls = 0
  /\ searches = 0
  /\ handler = [c \in Clients |-> "none"]
  /\ encodes = [c \in Clients |-> 0]
  /\ cleared = FALSE

\* no model is loaded, no request is being served, no file exists
StoreInit ==
  /\ ready = FALSE
  /\ index = <<>>
  /\ meta_df = <<>>
  /\ disk = [idx |-> NoFile, meta |-> NoFile, d |-> 0]
  /\ embed_model = "bge-m3"
  /\ EMBED_DIM = 0
  /\ index_d = 0
  /\ WorkersIdle

\* RAG_MIN_SCORE of line 140 (0.5) and MAX_CONTEXT_CHARS of line 141
DefaultMinScore == 50
DefaultMaxContextChars == 4000

NoResponse == [kind |-> "none", results |-> <<>>]

\* no chat request is being served
ChatIdle ==
  /\ chat_pc = "idle"
  /\ base_messages = <<>>
  /\ faiss = NoResponse
  /\ retrieved = <<>>
  /\ context_block = <<>>
  /\ num_chunks_sent = 0
  /\ messages_for_vllm = <<>>
  /\ think_mode = TRUE

\* line 314: the default of --batch-size
DefaultBatchSize == 64

\* the options when none is given (lines 311-320)
DefaultArgs ==
  [dry_run |-> FALSE, use_local |-> FALSE, batch_size |-> DefaultBatchSize,
   max_chunks |-> 0]

\* main has parsed its options and listed its sources; nothing ran yet
IngestStart ==
  /\ ing_pc = "start"
  /\ futures = <<>>
  /\ all_chunks = <<>>
  /\ batch_no = 0
  /\ total = 0
  /\ posted = <<>>
  /\ manifests = <<>>
  /\ ing_ret = "none"

\* no ingestion run is under way
IngestIdle ==
  /\ args = DefaultArgs
  /\ pdf_sources = <<>>
  /\ pages_of = <<>>
  /\ IngestStart

Init ==
  /\ StoreInit
  /\ RAG_MIN_SCORE = DefaultMinScore
  /\ MAX_CONTEXT_CHARS = DefaultMaxContextChars
  /\ ChatIdle
  /\ chat_ret = "none"
  /\ IngestIdle
  /\ life = "running"

(* --------------------------------------------------------------- startup *)
\* the loaded pair is kept whatever the dimension of the loaded index
Load_IgnoresDim(d, dim) ==
  IF d.idx.exists /\ d.meta.exists
  THEN [index |-> d.idx.data, meta_df |-> d.meta.data, d |-> d.d]
  ELSE [index |-> <<>>, meta_df |-> <<>>, d |-> dim]

\* lines 114-126: the pair startup takes from the files: both are read when
\* both exist and kept when the loaded index has the embedder's dimension dim,
\* else the pair is empty, with an index of dimension dim
Load(d, dim) ==
  IF d.idx.exists /\ d.meta.exists /\ d.d = dim
  THEN [index |-> d.idx.data, meta_df |-> d.meta.data, d |-> d.d]
  ELSE [index |-> <<>>, meta_df |-> <<>>, d |-> dim]

\* lifespan, lines 109-126
Startup ==
  /\ ~ready
  /\ ready' = TRUE
  /\ EMBED_DIM' = DimOf(embed_model)
  /\ index' = Load(disk, EMBED_DIM').index
  /\ meta_df' = Load(disk, EMBED_DIM').meta_df
  /\ index_d' = Load(disk, EMBED_DIM').d
  /\ UNCHANGED <<lock, disk, pc, budget, ret, searchLocals, upsertLocals>>
  /\ UNCHANGED <<embed_model, handler, encodes, cleared, notStore>>

(* ---------------------------------------------------------------- upsert *)
CanCall(c) == pc[c] = "idle"

CanMutate(c) == CanCall(c) /\ calls < MaxMutations

CanSearch(c) == CanCall(c) /\ searches < MaxSearches

\* the request is served although the service is not ready, and the files
\* are written from the unset pair
NotReady_Persists(c, h) ==
  /\ IF h = "search" THEN CanSearch(c) ELSE CanMutate(c)
  /\ ~ready
  /\ calls' = IF h = "search" THEN calls ELSE calls + 1
  /\ searches' = IF h = "search" THEN searches + 1 ELSE searches
  /\ handler' = [handler EXCEPT ![c] = h]
  /\ pc' = [pc EXCEPT ![c] = "done"]
  /\ ret' = [ret EXCEPT ![c] = Raised("not_ready")]
  /\ disk' = [idx |-> File(index), meta |-> File(meta_df), d |-> index_d]
  /\ UNCHANGED <<ready, index, meta_df, lock, searchLocals, upsertLocals>>
  /\ UNCHANGED <<embedder, index_d, cleared, encodes, notStore>>

\* lines 168-170, 226-228 and 274-275, the first test of upsert, search and
\* reset: if _model is None or _index is None or _meta_df is None: raise 503
NotReady(c, h) ==
  /\ IF h = "search" THEN CanSearch(c) ELSE CanMutate(c)
  /\ ~ready
  /\ calls' = IF h = "search" THEN calls ELSE calls + 1
  /\ searches' = IF h = "search" THEN searches + 1 ELSE searches
  /\ handler' = [handler EXCEPT ![c] = h]
  /\ pc' = [pc EXCEPT ![c] = "done"]
  /\ ret' = [ret EXCEPT ![c] = Raised("not_ready")]
  /\ UNCHANGED <<shared, searchLocals, upsertLocals>>
  /\ UNCHANGED <<embedder, index_d, cleared, encodes, notStore>>

\* lines 171-172: if not req.items: return {"upserted": 0}
UpsertEmpty(c) ==
  /\ CanMutate(c)
  /\ ready
  /\ calls' = calls + 1
  /\ searches' = searches
  /\ pc' = [pc EXCEPT ![c] = "done"]
  /\ ret' = [ret EXCEPT ![c] =
               [status |-> "ok", upserted |-> 0, hasTotal |-> FALSE, total |-> 0]]
  /\ UNCHANGED <<shared, searchLocals, upsertLocals>>
  /\ handler' = [handler EXCEPT ![c] = "upsert"]
  /\ UNCHANGED <<embedder, index_d, cleared, encodes, notStore>>

\* lines 174-181: ids, texts, metas, embs = normalized _embed(texts), n
UpsertEmbed(c, its) ==
  /\ CanMutate(c)
  /\ ready
  /\ its # <<>>
  /\ calls' = calls + 1
  /\ searches' = searches
  /\ items' = [items EXCEPT ![c] = its]
  /\ embs' = [embs EXCEPT ![c] = EmbedAll(TextsOf(its))]
  /\ pc' = [pc EXCEPT ![c] = "u_lock"]
  /\ UNCHANGED <<shared, searchLocals, ret, before, committed>>
  /\ handler' = [handler EXCEPT ![c] = "upsert"]
  /\ encodes' = [encodes EXCEPT ![c] = 1]
  /\ UNCHANGED <<embedder, index_d, cleared, notStore>>

\* line 178 raising for a request with items: _model.encode fails, nothing
\* was touched
UpsertEmbedFail(c) ==
  /\ CanMutate(c)
  /\ ready
  /\ calls' = calls + 1
  /\ searches' = searches
  /\ pc' = [pc EXCEPT ![c] = "done"]
  /\ ret' = [ret EXCEPT ![c] = Raised("model_error")]
  /\ UNCHANGED <<shared, searchLocals, upsertLocals>>
  /\ handler' = [handler EXCEPT ![c] = "upsert"]
  /\ encodes' = [encodes EXCEPT ![c] = 1]
  /\ UNCHANGED <<embedder, index_d, cleared, notStore>>

\* line 182 and line 277: with _lock
Acquire(c) ==
  /\ pc[c] \in {"u_lock", "r_lock"}
  /\ lock = "free"
  /\ lock' = c
  /\ pc' = [pc EXCEPT ![c] = IF pc[c] = "u_lock" THEN "u_mask" ELSE "r_index"]
  /\ before' = [before EXCEPT ![c] = meta_df]
  /\ UNCHANGED <<ready, index, meta_df, disk, budget, ret, searchLocals, items, embs,
                 committed>>
  /\ UNCHANGED <<embedder, index_d, cleared, handler, encodes, notStore>>

\* lines 184-194 and 196-199: existing_mask; when an id exists the index is
\* replaced by one holding the re-embedded texts of the remaining rows
UpsertMask(c) ==
  /\ pc[c] = "u_mask"
  /\ IF AnyExisting(meta_df, IdsOf(items[c]))
     THEN /\ index' = EmbedAll(TextsOf(Remaining(meta_df, IdsOf(items[c]))))
          /\ index_d' = EMBED_DIM
          /\ encodes' = [encodes EXCEPT ![c] =
                           IF Remaining(meta_df, IdsOf(items[c])) # <<>> THEN @ + 1 ELSE @]
          /\ pc' = [pc EXCEPT ![c] = "u_drop"]
     ELSE /\ index' = index
          /\ index_d' = index_d
          /\ encodes' = encodes
          /\ pc' = [pc EXCEPT ![c] = "u_add"]
  /\ UNCHANGED <<ready, meta_df, lock, disk, budget, ret, searchLocals, upsertLocals>>
  /\ UNCHANGED <<embedder, cleared, handler, notStore>>

\* the rows being replaced are dropped before the remaining ones are embedded
UpsertReembedFail_DropsFirst(c) ==
  /\ pc[c] = "u_mask"
  /\ Remaining(meta_df, IdsOf(items[c])) # <<>>
  /\ AnyExisting(meta_df, IdsOf(items[c]))
  /\ meta_df' = Remaining(meta_df, IdsOf(items[c]))
  /\ lock' = "free"
  /\ pc' = [pc EXCEPT ![c] = "done"]
  /\ ret' = [ret EXCEPT ![c] = Raised("model_error")]
  /\ UNCHANGED <<ready, index, disk, budget, searchLocals, upsertLocals>>
  /\ encodes' = [encodes EXCEPT ![c] = @ + 1]
  /\ UNCHANGED <<embedder, index_d, cleared, handler, notStore>>

\* line 190 raising inside the lock: the with-block releases the lock
UpsertReembedFail(c) ==
  /\ pc[c] = "u_mask"
  /\ Remaining(meta_df, IdsOf(items[c])) # <<>>
  /\ AnyExisting(meta_df, IdsOf(items[c]))
  /\ lock' = "free"
  /\ pc' = [pc EXCEPT ![c] = "done"]
  /\ ret' = [ret EXCEPT ![c] = Raised("model_error")]
  /\ UNCHANGED <<ready, index, meta_df, disk, budget, searchLocals, upsertLocals>>
  /\ encodes' = [encodes EXCEPT ![c] = @ + 1]
  /\ UNCHANGED <<embedder, index_d, cleared, handler, notStore>>

\* the rows stay: the index was rebuilt, the metadata was not
UpsertDrop_KeepsRows(c) ==
  /\ pc[c] = "u_drop"
  /\ pc' = [pc EXCEPT ![c] = "u_add"]
  /\ UNCHANGED <<shared, budget, ret, searchLocals, upsertLocals>>
  /\ UNCHANGED <<embedder, index_d, cleared, handler, encodes, notStore>>

\* lines 195 and 200: _meta_df.drop(..., inplace=True)
UpsertDrop(c) ==
  /\ pc[c] = "u_drop"
  /\ meta_df' = Remaining(meta_df, IdsOf(items[c]))
  /\ pc' = [pc EXCEPT ![c] = "u_add"]
  /\ UNCHANGED <<ready, index, lock, disk, budget, ret, searchLocals, upsertLocals>>
  /\ UNCHANGED <<embedder, index_d, cleared, handler, encodes, notStore>>

\* line 202: _index.add(embs)
UpsertAdd(c) ==
  /\ pc[c] = "u_add"
  /\ index' = index \o embs[c]
  /\ pc' = [pc EXCEPT ![c] = "u_concat"]
  /\ UNCHANGED <<ready, meta_df, lock, disk, budget, ret, searchLocals, upsertLocals>>
  /\ cleared' = FALSE
  /\ UNCHANGED <<embedder, index_d, handler, encodes, notStore>>

\* lines 204-205: _meta_df = pd.concat([_meta_df, new_df], ignore_index=True)
UpsertConcat(c) ==
  /\ pc[c] = "u_concat"
  /\ meta_df' = meta_df \o NewRows(items[c])
  /\ committed' = [committed EXCEPT ![c] = Len(meta_df')]
  /\ pc' = [pc EXCEPT ![c] = "u_persist_idx"]
  /\ UNCHANGED <<ready, index, lock, disk, budget, ret, searchLocals, items, embs, before>>
  /\ UNCHANGED <<embedder, index_d, cleared, handler, encodes, notStore>>

(* ----------------------------------------------------------------- reset *)
\* lines 274-276 passed; next is "with _lock"
ResetBegin(c) ==
  /\ CanMutate(c)
  /\ ready
  /\ calls' = calls + 1
  /\ searches' = searches
  /\ pc' = [pc EXCEPT ![c] = "r_lock"]
  /\ UNCHANGED <<shared, searchLocals, upsertLocals, ret>>
  /\ handler' = [handler EXCEPT ![c] = "reset"]
  /\ UNCHANGED <<embedder, index_d, cleared, encodes, notStore>>

\* the index is not replaced
ResetIndex_Keeps(c) ==
  /\ pc[c] = "r_index"
  /\ pc' = [pc EXCEPT ![c] = "r_meta"]
  /\ UNCHANGED <<shared, budget, ret, searchLocals, upsertLocals>>
  /\ UNCHANGED <<embedder, index_d, cleared, handler, encodes, notStore>>

\* line 279: _index = faiss.IndexFlatIP(EMBED_DIM)
ResetIndex(c) ==
  /\ pc[c] = "r_index"
  /\ index' = <<>>
  /\ pc' = [pc EXCEPT ![c] = "r_meta"]
  /\ UNCHANGED <<ready, meta_df, lock, disk, budget, ret, searchLocals, upsertLocals>>
  /\ index_d' = EMBED_DIM
  /\ UNCHANGED <<embedder, cleared, handler, encodes, notStore>>

\* line 281: _meta_df = pd.DataFrame(columns=[...])
ResetMeta(c) ==
  /\ pc[c] = "r_meta"
  /\ meta_df' = <<>>
  /\ committed' = [committed EXCEPT ![c] = 0]
  /\ pc' = [pc EXCEPT ![c] = "r_persist_idx"]
  /\ UNCHANGED <<ready, index, lock, disk, budget, ret, searchLocals, items, embs, before>>
  /\ cleared' = TRUE
  /\ UNCHANGED <<embedder, index_d, handler, encodes, notStore>>

(* --------------------------------------------------------------- persist *)
\* line 301: faiss.write_index(_index, INDEX_PATH)
WriteIndex(c) ==
  /\ pc[c] \in {"u_persist_idx", "r_persist_idx"}
  /\ disk' = [disk EXCEPT !.idx = File(index), !.d = index_d]
  /\ pc' = [pc EXCEPT ![c] =
              IF pc[c] = "u_persist_idx" THEN "u_persist_meta" ELSE "r_persist_meta"]
  /\ UNCHANGED <<ready, index, meta_df, lock, budget, ret, searchLocals, upsertLocals>>
  /\ UNCHANGED <<embedder, index_d, cleared, handler, encodes, notStore>>

\* the metadata file is left for a later write
WriteMeta_Deferred(c) ==
  /\ pc[c] \in {"u_persist_meta", "r_persist_meta"}
  /\ pc' = [pc EXCEPT ![c] =
              IF pc[c] = "u_persist_meta" THEN "u_unlock" ELSE "r_unlock"]
  /\ UNCHANGED <<shared, budget, ret, searchLocals, upsertLocals>>
  /\ UNCHANGED <<embedder, index_d, cleared, handler, encodes, notStore>>

\* line 302: _meta_df.to_parquet(META_PATH, index=False)
WriteMeta(c) ==
  /\ pc[c] \in {"u_persist_meta", "r_persist_meta"}
  /\ disk' = [disk EXCEPT !.meta = File(meta_df)]
  /\ pc' = [pc EXCEPT ![c] =
              IF pc[c] = "u_persist_meta" THEN "u_unlock" ELSE "r_unlock"]
  /\ UNCHANGED <<ready, index, meta_df, lock, budget, ret, searchLocals, upsertLocals>>
  /\ UNCHANGED <<embedder, index_d, cleared, handler, encodes, notStore>>

\* the failed call puts back the rows it found
PersistFail_RollsBack(c) ==
  /\ pc[c] \in {"u_persist_idx", "r_persist_idx", "u_persist_meta", "r_persist_meta"}
  /\ lock' = "free"
  /\ meta_df' = before[c]
  /\ index' = EmbedAll(TextsOf(before[c]))
  /\ pc' = [pc EXCEPT ![c] = "done"]
  /\ ret' = [ret EXCEPT ![c] = Raised("io_error")]
  /\ UNCHANGED <<ready, disk, budget, searchLocals, upsertLocals>>
  /\ UNCHANGED <<embedder, index_d, cleared, handler, encodes, notStore>>

\* the exception leaves the handler with the lock still held
PersistFail_KeepsLock(c) ==
  /\ pc[c] \in {"u_persist_idx", "r_persist_idx", "u_persist_meta", "r_persist_meta"}
  /\ pc' = [pc EXCEPT ![c] = "done"]
  /\ ret' = [ret EXCEPT ![c] = Raised("io_error")]
  /\ UNCHANGED <<shared, budget, searchLocals, upsertLocals>>
  /\ UNCHANGED <<embedder, index_d, cleared, handler, encodes, notStore>>

\* line 301 or line 302 raising (disk I/O error): the file being written is
\* left as it was, the exception leaves the with-block (lock released) and
\* the handler re-raises it (lines 216-218); nothing is undone
PersistFail(c) ==
  /\ pc[c] \in {"u_persist_idx", "r_persist_idx", "u_persist_meta", "r_persist_meta"}
  /\ lock' = "free"
  /\ pc' = [pc EXCEPT ![c] = "done"]
  /\ ret' = [ret EXCEPT ![c] = Raised("io_error")]
  /\ UNCHANGED <<ready, index, meta_df, disk, budget, searchLocals, upsertLocals>>
  /\ UNCHANGED <<embedder, index_d, cleared, handler, encodes, notStore>>

\* end of the with-block: lines 207-212 done (upsert), line 283 done (reset);
\* reset returns {"total_items": 0} right away
Release(c) ==
  /\ pc[c] \in {"u_unlock", "r_unlock"}
  /\ lock' = "free"
  /\ IF pc[c] = "u_unlock"
     THEN /\ pc' = [pc EXCEPT ![c] = "u_return"]
          /\ ret' = ret
     ELSE /\ pc' = [pc EXCEPT ![c] = "done"]
          /\ ret' = [ret EXCEPT ![c] =
                       [status |-> "ok", upserted |-> 0, hasTotal |-> TRUE, total |-> 0]]
  /\ UNCHANGED <<ready, index, meta_df, disk, budget, searchLocals, upsertLocals>>
  /\ UNCHANGED <<embedder, index_d, cleared, handler, encodes, notStore>>

\* lines 213-215, outside the lock:
\* return {"upserted": n, "total_items": int(len(_meta_df))}
UpsertReturn(c) ==
  /\ pc[c] = "u_return"
  /\ pc' = [pc EXCEPT ![c] = "done"]
  /\ ret' = [ret EXCEPT ![c] =
               [status |-> "ok", upserted |-> Len(items[c]), hasTotal |-> TRUE,
                total |-> Len(meta_df)]]
  /\ UNCHANGED <<shared, budget, searchLocals, upsertLocals>>
  /\ UNCHANGED <<embedder, index_d, cleared, handler, encodes, notStore>>

(* ---------------------------------------------------------------- search *)
\* lines 229-232: a blank query returns no results before any embedding
SearchBlank(c, q, k) ==
  /\ CanSearch(c)
  /\ ready
  /\ Strip(q) = ""
  /\ searches' = searches + 1
  /\ calls' = calls
  /\ query' = [query EXCEPT ![c] = q]
  /\ handler' = [handler EXCEPT ![c] = "search"]
  /\ pc' = [pc EXCEPT ![c] = "done"]
  /\ ret' = [ret EXCEPT ![c] =
               [status |-> "results", upserted |-> 0, hasTotal |-> FALSE, total |-> 0]]
  /\ UNCHANGED <<shared, topk, hits, cursor, results, upsertLocals>>
  /\ UNCHANGED <<embedder, index_d, cleared, encodes, notStore>>

\* the query is embedded before it is tested for blankness
SearchEmbedFail_AnyQuery(c, q) ==
  /\ CanSearch(c)
  /\ ready
  /\ searches' = searches + 1
  /\ calls' = calls
  /\ query' = [query EXCEPT ![c] = q]
  /\ handler' = [handler EXCEPT ![c] = "search"]
  /\ encodes' = [encodes EXCEPT ![c] = 1]
  /\ pc' = [pc EXCEPT ![c] = "done"]
  /\ ret' = [ret EXCEPT ![c] = Raised("model_error")]
  /\ UNCHANGED <<shared, topk, hits, cursor, results, upsertLocals>>
  /\ UNCHANGED <<embedder, index_d, cleared, notStore>>

\* line 236 raising, which only a non-blank query reaches (lines 229-232
\* return before it): the query cannot be embedded
SearchEmbedFail(c, q) ==
  /\ CanSearch(c)
  /\ ready
  /\ Strip(q) # ""
  /\ searches' = searches + 1
  /\ calls' = calls
  /\ query' = [query EXCEPT ![c] = q]
  /\ handler' = [handler EXCEPT ![c] = "search"]
  /\ encodes' = [encodes EXCEPT ![c] = 1]
  /\ pc' = [pc EXCEPT ![c] = "done"]
  /\ ret' = [ret EXCEPT ![c] = Raised("model_error")]
  /\ UNCHANGED <<shared, topk, hits, cursor, results, upsertLocals>>
  /\ UNCHANGED <<embedder, index_d, cleared, notStore>>

\* lines 233-241: strip, clamp top_k, embed and normalize the query, return no
\* results on an empty index, else D, I = _index.search(q_emb, top_k).
\* No lock is taken: the index is read as it stands.
SearchIndex(c, q, k) ==
  /\ CanSearch(c)
  /\ ready
  /\ Strip(q) # ""
  /\ searches' = searches + 1
  /\ query' = [query EXCEPT ![c] = q]
  /\ topk' = [topk EXCEPT ![c] = k]
  /\ IF Len(index) = 0
     THEN /\ pc' = [pc EXCEPT ![c] = "done"]
          /\ ret' = [ret EXCEPT ![c] =
                       [status |-> "results", upserted |-> 0, hasTotal |-> FALSE,
                        total |-> 0]]
          /\ UNCHANGED <<hits, cursor>>
     ELSE LET hs == IndexSearch(index, Normalize(Encode(Strip(q))), ClampTopK(k), {})
          IN  /\ hits' = [hits EXCEPT ![c] = hs]
              /\ cursor' = [cursor EXCEPT ![c] = SkipNegative(hs, 1)]
              /\ pc' = [pc EXCEPT ![c] = "s_loop"]
              /\ ret' = ret
  /\ UNCHANGED <<shared, calls, results, upsertLocals>>
  /\ handler' = [handler EXCEPT ![c] = "search"]
  /\ encodes' = [encodes EXCEPT ![c] = 1]
  /\ UNCHANGED <<embedder, index_d, cleared, notStore>>

\* the row a hit resolves to: row = _meta_df.iloc[idx] with the hit's score
ResultRow(rows, h) ==
  [id |-> rows[h.idx + 1].id, text |-> rows[h.idx + 1].text,
   metadata |-> rows[h.idx + 1].metadata, score |-> h.score]

\* lines 243-254, one iteration that reads _meta_df (no lock is held), and
\* lines 256-262 once the loop is over
SearchLoop(c) ==
  /\ pc[c] = "s_loop"
  /\ IF cursor[c] > Len(hits[c])
     THEN /\ pc' = [pc EXCEPT ![c] = "done"]
          /\ ret' = [ret EXCEPT ![c] =
                       [status |-> "results", upserted |-> 0, hasTotal |-> FALSE,
                        total |-> 0]]
          /\ UNCHANGED <<results, cursor>>
     ELSE /\ results' = [results EXCEPT ![c] =
                           IF hits[c][cursor[c]].idx >= Len(meta_df)
                           THEN results[c]
                           ELSE Append(results[c], ResultRow(meta_df, hits[c][cursor[c]]))]
          /\ cursor' = [cursor EXCEPT ![c] = SkipNegative(hits[c], cursor[c] + 1)]
          /\ UNCHANGED <<pc, ret>>
  /\ UNCHANGED <<shared, budget, query, topk, hits, upsertLocals>>
  /\ UNCHANGED <<embedder, index_d, cleared, handler, encodes, notStore>>

(* ------------------------------------------------------------ scheduling *)
\* the response is sent and the worker thread takes the next request
Finish(c) ==
  /\ pc[c] = "done"
  /\ pc' = [pc EXCEPT ![c] = "idle"]
  /\ items' = [items EXCEPT ![c] = <<>>]
  /\ embs' = [embs EXCEPT ![c] = <<>>]
  /\ query' = [query EXCEPT ![c] = ""]
  /\ topk' = [topk EXCEPT ![c] = 0]
  /\ hits' = [hits EXCEPT ![c] = <<>>]
  /\ cursor' = [cursor EXCEPT ![c] = 0]
  /\ results' = [results EXCEPT ![c] = <<>>]
  /\ ret' = [ret EXCEPT ![c] = NoRet]
  /\ before' = [before EXCEPT ![c] = <<>>]
  /\ committed' = [committed EXCEPT ![c] = 0]
  /\ UNCHANGED <<shared, budget>>
  /\ handler' = [handler EXCEPT ![c] = "none"]
  /\ encodes' = [encodes EXCEPT ![c] = 0]
  /\ UNCHANGED <<embedder, index_d, cleared, notStore>>

\* the process dies (kill, power loss): memory is lost, the files stay
Crash ==
  /\ ready
  /\ ready' = FALSE
  /\ index' = <<>>
  /\ meta_df' = <<>>
  /\ lock' = "free"
  /\ pc' = [c \in Clients |-> "idle"]
  /\ items' = [c \in Clients |-> <<>>]
  /\ embs' = [c \in Clients |-> <<>>]
  /\ query' = [c \in Clients |-> ""]
  /\ topk' = [c \in Clients |-> 0]
  /\ hits' = [c \in Clients |-> <<>>]
  /\ cursor' = [c \in Clients |-> 0]
  /\ results' = [c \in Clients |-> <<>>]
  /\ ret' = [c \in Clients |-> NoRet]
  /\ before' = [c \in Clients |-> <<>>]
  /\ committed' = [c \in Clients |-> 0]
  /\ EMBED_DIM' = 0
  /\ index_d' = 0
  /\ handler' = [c \in Clients |-> "none"]
  /\ encodes' = [c \in Clients |-> 0]
  /\ cleared' = FALSE
  /\ UNCHANGED <<disk, budget, embed_model, notStore>>

Step(c) ==
  \/ \E h \in Handlers : NotReady(c, h)
  \/ UpsertEmpty(c)
  \/ \E its \in ItemLists : UpsertEmbed(c, its)
  \/ UpsertEmbedFail(c)
  \/ Acquire(c)
  \/ UpsertMask(c)
  \/ UpsertReembedFail(c)
  \/ UpsertDrop(c)
  \/ UpsertAdd(c)
  \/ UpsertConcat(c)
  \/ ResetBegin(c)
  \/ ResetIndex(c)
  \/ ResetMeta(c)
  \/ WriteIndex(c)
  \/ WriteMeta(c)
  \/ PersistFail(c)
  \/ Release(c)
  \/ UpsertReturn(c)
  \/ \E q \in Queries, k \in TopKs : SearchBlank(c, q, k)
  \/ \E q \in Queries : SearchEmbedFail(c, q)
  \/ \E q \in Queries, k \in TopKs : SearchIndex(c, q, k)
  \/ SearchLoop(c)
  \/ Finish(c)

\* request handlers run on a pool of worker threads
Next == Startup \/ \E c \in Clients : Step(c)

Spec == Init /\ [][Next]_vars

\* the same service, with the process allowed to die and start again
NextCrash == Next \/ Crash

SpecCrash == Init /\ [][NextCrash]_vars

\* one request at a time: no handler starts or runs while another is running
NextSeq == Startup \/ \E c \in Clients : (\A d \in Clients \ {c} : pc[d] = "idle") /\ Step(c)

SpecSeq == Init /\ [][NextSeq]_vars

\* the stopped service is deployed again with another EMBED_MODEL (line 49)
Redeploy ==
  /\ ~ready
  /\ \E m \in Models \ {embed_model} : embed_model' = m
  /\ UNCHANGED <<shared, pc, budget, ret, searchLocals, upsertLocals>>
  /\ UNCHANGED <<EMBED_DIM, index_d, handler, encodes, cleared, notStore>>

\* one request at a time, the process may die, and it may start again under
\* another embedding model
NextRestart == NextSeq \/ Crash \/ Redeploy

SpecRestart == Init /\ [][NextRestart]_vars

(* ------------------------------------------------ search on a loaded store *)
\* longest metadata sequence of a loaded store
MaxRows == 3

\* the rows upsert stores (line 204)
Rows == {NewRows(<<it>>)[1] : it \in Items}

RowLists == UNION {[1..n -> Rows] : n \in 0..MaxRows}

\* the pairs the two files can hold: an index aligned with the metadata, or
\* (the index file is written first, lines 301-302) an index one vector ahead
Stores ==
  {[index |-> EmbedAll(TextsOf(rs)) \o ex, meta_df |-> rs] :
     rs \in RowLists, ex \in {<<>>, EmbedAll(<<"alpha">>)}}

\* SearchRequest.top_k: any integer
SearchTopKs == {-1, 0, 1, 2, 51}

\* the service right after lifespan's startup loaded a persisted pair
InitSearch ==
  /\ \E st \in Stores :
       /\ index = st.index
       /\ meta_df = st.meta_df
       /\ disk = [idx |-> File(st.index), meta |-> File(st.meta_df),
                  d |-> DimOf("bge-m3")]
  /\ ready = TRUE
  /\ embed_model = "bge-m3"
  /\ EMBED_DIM = DimOf(embed_model)
  /\ index_d = EMBED_DIM
  /\ WorkersIdle
  /\ RAG_MIN_SCORE = DefaultMinScore
  /\ MAX_CONTEXT_CHARS = DefaultMaxContextChars
  /\ ChatIdle
  /\ chat_ret = "none"
  /\ IngestIdle
  /\ life = "running"

NextSearch ==
  \E c \in Clients :
    \/ \E q \in Queries, k \in SearchTopKs : SearchIndex(c, q, k)
    \/ SearchLoop(c)
    \/ Finish(c)

SpecSearch == InitSearch /\ [][NextSearch]_vars

(* -------------------------------------------------------------- mutations *)
\* the steps of upsert and reset once the service is ready
Mutate(c) ==
  \/ UpsertEmpty(c)
  \/ \E its \in ItemLists : UpsertEmbed(c, its)
  \/ UpsertEmbedFail(c)
  \/ Acquire(c)
  \/ UpsertMask(c)
  \/ UpsertReembedFail(c)
  \/ UpsertDrop(c)
  \/ UpsertAdd(c)
  \/ UpsertConcat(c)
  \/ ResetBegin(c)
  \/ ResetIndex(c)
  \/ ResetMeta(c)
  \/ WriteIndex(c)
  \/ WriteMeta(c)
  \/ PersistFail(c)
  \/ Release(c)
  \/ UpsertReturn(c)
  \/ Finish(c)

\* upserts and resets, one at a time, on a store loaded at startup
NextLoaded ==
  \E c \in Clients : (\A d \in Clients \ {c} : pc[d] = "idle") /\ Mutate(c)

SpecLoaded == InitSearch /\ [][NextLoaded]_vars

\* concurrent upserts and resets from a fresh start (searches take no lock
\* and write nothing: they are left out)
NextMutate ==
  \/ Startup
  \/ \E c \in Clients : \E h \in Handlers \ {"search"} : NotReady(c, h)
  \/ \E c \in Clients : Mutate(c)

\* a handler that is running and not waiting for the lock takes its next step
Proceed(c) == pc[c] \notin {"idle", "u_lock", "r_lock"} /\ Mutate(c)

\* the same service under fair scheduling: a running thread is not starved
\* (weak fairness of its steps), and a thread waiting at "with _lock" gets the
\* lock if the lock is free again and again (strong fairness of Acquire)
SpecFair ==
  /\ Init
  /\ [][NextMutate]_vars
  /\ \A c \in Clients : WF_vars(Proceed(c)) /\ SF_vars(Acquire(c))

(* -------------------------------------------------------------- shutdown *)
\* the persist of the shutdown is done without the lock
ShutdownAcquire_NoLock ==
  /\ ready
  /\ life = "running"
  /\ life' = "persist_idx"
  /\ UNCHANGED <<store, chat, ingest>>

\* lines 138-139: the server stops, lifespan resumes after its yield and
\* enters "with _lock"
ShutdownAcquire ==
  /\ ready
  /\ life = "running"
  /\ lock = "free"
  /\ lock' = "lifespan"
  /\ life' = "persist_idx"
  /\ UNCHANGED <<ready, index, meta_df, disk, pc, budget, ret, searchLocals,
                 upsertLocals, embedder, index_d, handler, encodes, cleared>>
  /\ UNCHANGED <<chat, ingest>>

\* line 140, _persist: line 301
ShutdownWriteIndex ==
  /\ life = "persist_idx"
  /\ disk' = [disk EXCEPT !.idx = File(index), !.d = index_d]
  /\ life' = "persist_meta"
  /\ UNCHANGED <<ready, index, meta_df, lock, pc, budget, ret, searchLocals,
                 upsertLocals, embedder, index_d, handler, encodes, cleared>>
  /\ UNCHANGED <<chat, ingest>>

\* line 140, _persist: line 302
ShutdownWriteMeta ==
  /\ life = "persist_meta"
  /\ disk' = [disk EXCEPT !.meta = File(meta_df)]
  /\ life' = "unlock"
  /\ UNCHANGED <<ready, index, meta_df, lock, pc, budget, ret, searchLocals,
                 upsertLocals, embedder, index_d, handler, encodes, cleared>>
  /\ UNCHANGED <<chat, ingest>>

\* line 301 or line 302 raising: the with-block releases the lock and the
\* exception leaves lifespan
ShutdownPersistFail ==
  /\ life \in {"persist_idx", "persist_meta"}
  /\ lock' = "free"
  /\ life' = "stopped"
  /\ UNCHANGED <<ready, index, meta_df, disk, pc, budget, ret, searchLocals,
                 upsertLocals, embedder, index_d, handler, encodes, cleared>>
  /\ UNCHANGED <<chat, ingest>>

\* line 141 done: the with-block ends
ShutdownRelease ==
  /\ life = "unlock"
  /\ lock' = "free"
  /\ life' = "stopped"
  /\ UNCHANGED <<ready, index, meta_df, disk, pc, budget, ret, searchLocals,
                 upsertLocals, embedder, index_d, handler, encodes, cleared>>
  /\ UNCHANGED <<chat, ingest>>

\* lifespan is over and the process ends: memory is lost, the files stay; the
\* service can be started again
Exit ==
  /\ life = "stopped"
  /\ life' = "running"
  /\ ready' = FALSE
  /\ index' = <<>>
  /\ meta_df' = <<>>
  /\ lock' = "free"
  /\ pc' = [c \in Clients |-> "idle"]
  /\ items' = [c \in Clients |-> <<>>]
  /\ embs' = [c \in Clients |-> <<>>]
  /\ query' = [c \in Clients |-> ""]
  /\ topk' = [c \in Clients |-> 0]
  /\ hits' = [c \in Clients |-> <<>>]
  /\ cursor' = [c \in Clients |-> 0]
  /\ results' = [c \in Clients |-> <<>>]
  /\ ret' = [c \in Clients |-> NoRet]
  /\ before' = [c \in Clients |-> <<>>]
  /\ committed' = [c \in Clients |-> 0]
  /\ EMBED_DIM' = 0
  /\ index_d' = 0
  /\ handler' = [c \in Clients |-> "none"]
  /\ encodes' = [c \in Clients |-> 0]
  /\ cleared' = FALSE
  /\ UNCHANGED <<disk, budget, embed_model, chat, ingest>>

\* concurrent upserts and resets, and the server stopped at any moment
NextShutdown ==
  \/ NextMutate
  \/ ShutdownAcquire
  \/ ShutdownWriteIndex
  \/ ShutdownWriteMeta
  \/ ShutdownPersistFail
  \/ ShutdownRelease
  \/ Exit

SpecShutdown == Init /\ [][NextShutdown]_vars

(* ============================================================ chatbot-RAG *)
(* chat_endpoint of src/004-RAG/chatbot-RAG/backend/main.py: retrieval from *)
(* faiss-wrap, the context block, its splicing into the messages and the   *)
(* tagging of the last user message.                                       *)

(* ---------------------------------------------------------------- bounds *)
\* longest message list of a chat request
MaxMessages == 2
\* longest result list faiss-wrap answers with
MaxResults == 2

(* --------------------------------------------------------------- strings *)
\* the whitespace str.strip() and str.rstrip() remove
White == {" ", "\n", "\t"}

RECURSIVE LStrip(_)
LStrip(s) == IF s # <<>> /\ Head(s) \in White THEN LStrip(Tail(s)) ELSE s

\* content.rstrip()
RECURSIVE RStrip(_)
RStrip(s) ==
  IF s # <<>> /\ s[Len(s)] \in White THEN RStrip(SubSeq(s, 1, Len(s) - 1)) ELSE s

\* s.strip()
StripChars(s) == LStrip(RStrip(s))

DigitChars == <<"0", "1", "2", "3", "4", "5", "6", "7", "8", "9">>

\* str(n) of a natural number
RECURSIVE Decimal(_)
Decimal(n) ==
  IF n < 10 THEN <<DigitChars[n + 1]>>
  ELSE Decimal(n \div 10) \o <<DigitChars[(n % 10) + 1]>>

\* sub in s
Contains(s, sub) ==
  \E i \in 1..(Len(s) - Len(sub) + 1) : SubSeq(s, i, i + Len(sub) - 1) = sub

\* "\n".join(lines)
RECURSIVE Join(_)
Join(ls) ==
  IF ls = <<>> THEN <<>>
  ELSE IF Len(ls) = 1 THEN ls[1]
       ELSE ls[1] \o <<"\n">> \o Join(Tail(ls))

\* line 256: the first line of the block
Preamble ==
  <<"Y", "o", "u", " ", "h", "a", "v", "e", " ", "a", "c", "c", "e", "s",
  "s", " ", "t", "o", " ", "t", "h", "e", " ", "f", "o", "l", "l", "o",
  "w", "i", "n", "g", " ", "c", "o", "n", "t", "e", "x", "t", " ", "p",
  "a", "s", "s", "a", "g", "e", "s", ".", " ", "C", "i", "t", "e", " ",
  "t", "h", "e", "m", " ", "w", "h", "e", "n", " ", "r", "e", "l", "e",
  "v", "a", "n", "t", ".", "\n">>

\* lines 292-293: the instruction the context message starts with
SystemPrefix ==
  <<"Y", "o", "u", " ", "a", "r", "e", " ", "a", " ", "h", "e", "l", "p",
  "f", "u", "l", " ", "a", "s", "s", "i", "s", "t", "a", "n", "t", " ",
  "t", "h", "a", "t", " ", "u", "s", "e", "s", " ", "r", "e", "t", "r",
  "i", "e", "v", "e", "d", " ", "c", "o", "n", "t", "e", "x", "t", " ",
  "t", "o", " ", "a", "n", "s", "w", "e", "r", ".", " ", "I", "f", " ",
  "t", "h", "e", " ", "c", "o", "n", "t", "e", "x", "t", " ", "i", "s",
  " ", "n", "o", "t", " ", "s", "u", "f", "f", "i", "c", "i", "e", "n",
  "t", ",", " ", "s", "a", "y", " ", "s", "o", " ", "a", "n", "d", " ",
  "p", "r", "o", "c", "e", "e", "d", " ", "c", "a", "u", "t", "i", "o",
  "u", "s", "l", "y", ".", "\n", "\n">>

\* "[", "] Source: ", " p.", "unknown" of lines 263-266
SourceLabel == <<"]", " ", "S", "o", "u", "r", "c", "e", ":", " ">>

PageLabel == <<" ", "p", ".">>

Unknown == <<"u", "n", "k", "n", "o", "w", "n">>

\* line 402 and line 406: the tag, and what is appended
NoThinkTag == <<"/", "n", "o", "_", "t", "h", "i", "n", "k">>

(* ---------------------------------------------------------------- inputs *)
\* ChatRequest.messages: role and content of each ChatMessage
ChatMessages ==
  {[role |-> "system", content |-> <<"s">>],
   [role |-> "user", content |-> <<"h", "i">>],
   [role |-> "user", content |-> <<"h", "i", " ">>],
   [role |-> "user", content |-> <<>>],
   [role |-> "user", content |-> <<"q", " ">> \o NoThinkTag],
   [role |-> "assistant", content |-> <<"o", "k">>]}

MessageLists == UNION {[1..n -> ChatMessages] : n \in 0..MaxMessages}

\* the metadata of a result: an absent key, None and "" are the empty string
\* (they are equally false at line 263); has_page is "page is not None"
NoMeta ==
  [source |-> <<>>, file |-> <<>>, s3_key |-> <<>>, has_page |-> FALSE, page |-> 0]

\* the results faiss-wrap can answer with: text, metadata, score
SearchResults ==
  {[text |-> <<"a", "a", "a", "a">>, metadata |-> NoMeta, score |-> 90],
   [text |-> <<" ", "b", "b", " ">>,
    metadata |-> [NoMeta EXCEPT !.source = <<"s">>, !.file = <<"f">>,
                                !.has_page = TRUE, !.page = 7],
    score |-> 50],
   [text |-> <<"c", "c">>, metadata |-> [NoMeta EXCEPT !.file = <<"f">>], score |-> 49],
   [text |-> <<"d", "d">>,
    metadata |-> [NoMeta EXCEPT !.file = <<"f">>, !.s3_key = <<"k">>],
    score |-> 80],
   [text |-> <<>>, metadata |-> [NoMeta EXCEPT !.s3_key = <<"k">>], score |-> 70]}

ResultLists == UNION {[1..n -> SearchResults] : n \in 0..MaxResults}

\* what the POST of line 205 gives: status 200 with results, another status,
\* or an exception (no connection, a body that is not JSON)
Responses ==
  {[kind |-> "ok", results |-> rs] : rs \in ResultLists}
    \cup {[kind |-> "status", results |-> <<>>], [kind |-> "raised", results |-> <<>>]}

\* RAG_MIN_SCORE (hundredths) and MAX_CONTEXT_CHARS as the environment sets them
MinScores == {DefaultMinScore, 70}

Limits == {0, 20, 21, 25, 45, 46, DefaultMaxContextChars}

(* ------------------------------------------------------ retrieve_context *)
\* a result at the threshold is dropped too
FilterByScore_Strict(rs, min) == SelectSeq(rs, LAMBDA r : r.score > min)

\* line 217: [r for r in results if r.get("score", 0) >= RAG_MIN_SCORE]
FilterByScore(rs, min) == SelectSeq(rs, LAMBDA r : r.score >= min)

\* lines 201-239: [] for a status other than 200 and for any exception
RetrieveContext(resp, min) ==
  IF resp.kind = "ok" THEN FilterByScore(resp.results, min) ELSE <<>>

(* --------------------------------------------------- build_context_block *)
\* the s3 key is preferred to the file name
SourceOf_KeyBeforeFile(meta) ==
  IF meta.source # <<>> THEN meta.source
  ELSE IF meta.s3_key # <<>> THEN meta.s3_key
       ELSE IF meta.file # <<>> THEN meta.file
            ELSE Unknown

\* line 263: meta.get("source") or meta.get("file") or meta.get("s3_key") or "unknown"
SourceOf(meta) ==
  IF meta.source # <<>> THEN meta.source
  ELSE IF meta.file # <<>> THEN meta.file
       ELSE IF meta.s3_key # <<>> THEN meta.s3_key
            ELSE Unknown

\* line 266
Header(i, r) ==
  <<"[">> \o Decimal(i) \o SourceLabel \o SourceOf(r.metadata)
    \o (IF r.metadata.has_page THEN PageLabel \o Decimal(r.metadata.page) ELSE <<>>)

\* lines 261-267: snippet = f"{header}\n{text}\n" with the text stripped
Snippet(i, r) == Header(i, r) \o <<"\n">> \o StripChars(r.text) \o <<"\n">>

\* a result that does not fit is passed over and the loop goes on
RECURSIVE Pack_SkipsOverflow(_, _, _, _)
Pack_SkipsOverflow(rs, i, running, limit) ==
  IF i > Len(rs) THEN <<>>
  ELSE LET s == Snippet(i, rs[i])
       IN  IF running + Len(s) > limit
           THEN Pack_SkipsOverflow(rs, i + 1, running, limit)
           ELSE <<s>> \o Pack_SkipsOverflow(rs, i + 1, running + Len(s), limit)

\* lines 260-274: the snippets the loop appends from result i on, running
\* being the length of the snippets appended so far
RECURSIVE Pack(_, _, _, _)
Pack(rs, i, running, limit) ==
  IF i > Len(rs) THEN <<>>
  ELSE LET s == Snippet(i, rs[i])
       IN  IF running + Len(s) > limit THEN <<>>
           ELSE <<s>> \o Pack(rs, i + 1, running + Len(s), limit)

\* lines 253-279: (context_block, included_chunks)
BuildContextBlock(rs, limit) ==
  IF rs = <<>> THEN [block |-> <<>>, included |-> 0]
  ELSE LET snippets == Pack(rs, 1, 0, limit)
       IN  [block |-> StripChars(Join(<<Preamble>> \o snippets)),
            included |-> Len(snippets)]

(* ------------------------------------------ inject_context_into_messages *)
\* lines 289-295
SystemMsg(block) == [role |-> "system", content |-> SystemPrefix \o block]

\* the context message is added whatever the block
InjectContext_Always(messages, block) ==
  IF messages # <<>> /\ messages[1].role = "system"
  THEN <<messages[1], SystemMsg(block)>> \o Tail(messages)
  ELSE <<SystemMsg(block)>> \o messages

\* the context message always comes first
InjectContext_Prepends(messages, block) ==
  IF block = <<>> THEN messages ELSE <<SystemMsg(block)>> \o messages

\* lines 286-303
InjectContext(messages, block) ==
  IF block = <<>> THEN messages
  ELSE IF messages # <<>> /\ messages[1].role = "system"
       THEN <<messages[1], SystemMsg(block)>> \o Tail(messages)
       ELSE <<SystemMsg(block)>> \o messages

(* --------------------------------------------------------- chat_endpoint *)
\* lines 395-399: the index (1-based) of the last user message, 0 for None
LastUserIdx(messages) ==
  LET users == {i \in 1..Len(messages) : messages[i].role = "user"}
  IN  IF users = {} THEN 0 ELSE CHOOSE i \in users : \A j \in users : j <= i

\* line 380: last_user_msg, the empty string standing for None as well (both
\* are false at line 383)
LastUserMsg(messages) ==
  IF LastUserIdx(messages) = 0 THEN <<>> ELSE messages[LastUserIdx(messages)].content

\* lines 400-406
TagLastUser(messages, think) ==
  LET i == LastUserIdx(messages)
  IN  IF i = 0 THEN messages
      ELSE IF Contains(messages[i].content, NoThinkTag) THEN messages
           ELSE [messages EXCEPT ![i].content =
                   IF think THEN RStrip(@) ELSE RStrip(@) \o <<" ">> \o NoThinkTag]

\* lines 377-384: base_messages, last_user_msg, retrieved
ChatRetrieve(msgs, resp) ==
  /\ chat_pc = "idle"
  /\ base_messages' = msgs
  /\ IF LastUserMsg(msgs) # <<>>
     THEN /\ faiss' = resp
          /\ retrieved' = RetrieveContext(resp, RAG_MIN_SCORE)
     ELSE /\ faiss' = NoResponse
          /\ retrieved' = <<>>
  /\ chat_pc' = "retrieved"
  /\ chat_ret' = "none"
  /\ UNCHANGED <<RAG_MIN_SCORE, MAX_CONTEXT_CHARS, context_block, num_chunks_sent,
                 messages_for_vllm, think_mode, notChat>>

\* line 386: build_context_block(retrieved), limit_chars = MAX_CONTEXT_CHARS
ChatBuild ==
  /\ chat_pc = "retrieved"
  /\ context_block' = BuildContextBlock(retrieved, MAX_CONTEXT_CHARS).block
  /\ num_chunks_sent' = BuildContextBlock(retrieved, MAX_CONTEXT_CHARS).included
  /\ chat_pc' = "built"
  /\ UNCHANGED <<RAG_MIN_SCORE, MAX_CONTEXT_CHARS, base_messages, faiss, retrieved,
                 messages_for_vllm, chat_ret, think_mode, notChat>>

\* line 387
ChatInject ==
  /\ chat_pc = "built"
  /\ messages_for_vllm' = InjectContext(base_messages, context_block)
  /\ chat_pc' = "injected"
  /\ UNCHANGED <<RAG_MIN_SCORE, MAX_CONTEXT_CHARS, base_messages, faiss, retrieved,
                 context_block, num_chunks_sent, chat_ret, think_mode, notChat>>

\* the index of the last user message is taken from the sequence before the
\* context message was spliced in
ChatTag_PreSpliceIndex(think) ==
  /\ chat_pc = "injected"
  /\ LET i == LastUserIdx(base_messages)
     IN  messages_for_vllm' =
           IF i = 0 \/ Contains(messages_for_vllm[i].content, NoThinkTag)
           THEN messages_for_vllm
           ELSE [messages_for_vllm EXCEPT ![i].content =
                   IF think THEN RStrip(@) ELSE RStrip(@) \o <<" ">> \o NoThinkTag]
  /\ base_messages' = base_messages
  /\ think_mode' = think
  /\ chat_pc' = "tagged"
  /\ UNCHANGED <<RAG_MIN_SCORE, MAX_CONTEXT_CHARS, faiss, retrieved, context_block,
                 num_chunks_sent, chat_ret, notChat>>

\* lines 393-406, think being request.think_mode; the dict that is changed is
\* an element of base_messages as well (both lists hold the same dicts)
ChatTag(think) ==
  /\ chat_pc = "injected"
  /\ messages_for_vllm' = TagLastUser(messages_for_vllm, think)
  /\ base_messages' = TagLastUser(base_messages, think)
  /\ think_mode' = think
  /\ chat_pc' = "tagged"
  /\ UNCHANGED <<RAG_MIN_SCORE, MAX_CONTEXT_CHARS, faiss, retrieved, context_block,
                 num_chunks_sent, chat_ret, notChat>>

\* lines 408-481: the request goes to vLLM and the handler returns the answer
\* or raises (the status vLLM gave, or 500)
ChatSend(outcome) ==
  /\ chat_pc = "tagged"
  /\ chat_ret' = outcome
  /\ chat_pc' = "idle"
  /\ base_messages' = <<>>
  /\ faiss' = NoResponse
  /\ retrieved' = <<>>
  /\ context_block' = <<>>
  /\ num_chunks_sent' = 0
  /\ messages_for_vllm' = <<>>
  /\ think_mode' = TRUE
  /\ UNCHANGED <<RAG_MIN_SCORE, MAX_CONTEXT_CHARS, notChat>>

\* the backend started under some configuration; no request yet
InitChat ==
  /\ StoreInit
  /\ RAG_MIN_SCORE \in MinScores
  /\ MAX_CONTEXT_CHARS \in Limits
  /\ ChatIdle
  /\ chat_ret = "none"
  /\ IngestIdle
  /\ life = "running"

NextChat ==
  \/ \E msgs \in MessageLists, resp \in Responses : ChatRetrieve(msgs, resp)
  \/ ChatBuild
  \/ ChatInject
  \/ \E think \in BOOLEAN : ChatTag(think)
  \/ \E outcome \in {"ok", "vllm_error", "error"} : ChatSend(outcome)

SpecChat == InitChat /\ [][NextChat]_vars

(* ================================================================= ingest *)
(* main of src/004-RAG/ingest/ingest.py: a pool of workers turns each PDF  *)
(* into chunks, the chunks are merged, capped, sent to /upsert in batches  *)
(* and listed in a manifest.                                               *)

(* ---------------------------------------------------------------- bounds *)
\* most documents of one run
MaxDocs == 2
\* most pages of the document make_chunks is given
MaxPages == 3

\* line 195: the fewest characters of a valid chunk
MinChunkChars == 20

(* --------------------------------------------------------------- strings *)
\* the character "\xa0"
Nbsp == "nbsp"

\* line 187: the class [\t\r\f]
TabChars == {"\t", "\r", "\f"}

\* line 188: the class \s, of the characters of the model
SpaceChars == {" ", "\t", "\n", "\r", "\f"}

\* t.replace(a, b), a and b one character each
ReplaceChar(t, a, b) == [i \in 1..Len(t) |-> IF t[i] = a THEN b ELSE t[i]]

\* s without the run of characters of cls it starts with
RECURSIVE SkipRun(_, _)
SkipRun(s, cls) == IF s # <<>> /\ Head(s) \in cls THEN SkipRun(Tail(s), cls) ELSE s

\* re.sub(r"[cls]+", " ", s)
RECURSIVE SubRuns(_, _)
SubRuns(s, cls) ==
  IF s = <<>> THEN <<>>
  ELSE IF Head(s) \in cls THEN <<" ">> \o SubRuns(SkipRun(s, cls), cls)
       ELSE <<Head(s)>> \o SubRuns(Tail(s), cls)

\* lines 186-189
clean_text(t) ==
  StripChars(SubRuns(SubRuns(ReplaceChar(t, Nbsp, " "), TabChars), SpaceChars))

\* a text of exactly the minimum length is dropped too
valid_chunk_Strict(t) == Len(t) > MinChunkChars

\* line 195
valid_chunk(t) == Len(t) >= MinChunkChars

\* line 200: SHA-256 of the text, taken as free of collisions: the digest of
\* a text is known by the text it was made from
sha256_hex(s) == <<"sha256">> \o s

\* s without the word (characters that are not whitespace) it starts with
RECURSIVE SkipWord(_)
SkipWord(s) == IF s # <<>> /\ Head(s) \notin SpaceChars THEN SkipWord(Tail(s)) ELSE s

\* line 228: len(cleaned.split())
RECURSIVE WordCount(_)
WordCount(s) ==
  IF SkipRun(s, SpaceChars) = <<>> THEN 0
  ELSE 1 + WordCount(SkipWord(SkipRun(s, SpaceChars)))

\* f"{n:0{w}d}" once s is str(n)
RECURSIVE ZeroPad(_, _)
ZeroPad(s, w) == IF Len(s) >= w THEN s ELSE ZeroPad(<<"0">> \o s, w)

\* the greatest element of a non-empty set of numbers
Last(S) == CHOOSE i \in S : \A j \in S : j <= i

\* os.path.basename(p)
Basename(p) ==
  IF {i \in 1..Len(p) : p[i] = "/"} = {} THEN p
  ELSE SubSeq(p, Last({i \in 1..Len(p) : p[i] = "/"}) + 1, Len(p))

\* os.path.splitext(name)[0]: up to the last dot that is not the first character
Stem(name) ==
  IF {i \in 2..Len(name) : name[i] = "."} = {} THEN name
  ELSE SubSeq(name, 1, Last({i \in 2..Len(name) : name[i] = "."}) - 1)

\* lines 348 and 353: doc_id
DocId(source) == Stem(Basename(source))

\* "file://" of line 349
FileScheme == <<"f", "i", "l", "e", ":", "/", "/">>

\* the directory the script runs in, with its trailing slash
Cwd == <<"/", "w", "/">>

\* os.path.abspath(p) of a normalized path
Abspath(p) == IF p # <<>> /\ p[1] = "/" THEN p ELSE Cwd \o p

\* lines 349 and 354: source_uri
SourceUri(source, use_local) ==
  IF use_local THEN FileScheme \o Abspath(source) ELSE source

\* "#page-" of line 217 and "#page=" of line 223
PageTag == <<"#", "p", "a", "g", "e", "-">>

PageFragment == <<"#", "p", "a", "g", "e", "=">>

(* ----------------------------------------------------------- make_chunks *)
\* lines 216-229: the chunk of page idx (from 1), cleaned being its text
Chunk(doc_id, source_uri, idx, cleaned) ==
  [id |-> doc_id \o PageTag \o ZeroPad(Decimal(idx), 4),
   text |-> cleaned,
   metadata |-> [doc_id |-> doc_id,
                 source_uri |-> source_uri \o PageFragment \o Decimal(idx),
                 page |-> idx,
                 lang |-> "fr"],
   row_hash |-> sha256_hex(cleaned),
   token_count |-> WordCount(cleaned)]

\* the chunks are numbered by their position among the chunks kept
RECURSIVE Candidates_Renumbers(_, _, _, _)
Candidates_Renumbers(doc_id, source_uri, pages, idx) ==
  IF idx > Len(pages) THEN <<>>
  ELSE (IF valid_chunk(clean_text(pages[idx]))
        THEN <<Chunk(doc_id, source_uri,
                     Cardinality({j \in 1..idx : valid_chunk(clean_text(pages[j]))}),
                     clean_text(pages[idx]))>>
        ELSE <<>>)
         \o Candidates_Renumbers(doc_id, source_uri, pages, idx + 1)

\* lines 211-229: the chunks of the valid pages from page idx on
RECURSIVE Candidates(_, _, _, _)
Candidates(doc_id, source_uri, pages, idx) ==
  IF idx > Len(pages) THEN <<>>
  ELSE (IF valid_chunk(clean_text(pages[idx]))
        THEN <<Chunk(doc_id, source_uri, idx, clean_text(pages[idx]))>>
        ELSE <<>>)
         \o Candidates(doc_id, source_uri, pages, idx + 1)

\* a chunk whose hash was seen replaces the one kept before
RECURSIVE Dedupe_KeepsLast(_, _)
Dedupe_KeepsLast(chunks, seen) ==
  IF chunks = <<>> THEN <<>>
  ELSE IF \E j \in 2..Len(chunks) : chunks[j].row_hash = Head(chunks).row_hash
       THEN Dedupe_KeepsLast(Tail(chunks), seen)
       ELSE <<Head(chunks)>> \o Dedupe_KeepsLast(Tail(chunks), seen)

\* lines 231-238: the chunks whose hash is not in seen, first occurrences only
RECURSIVE Dedupe(_, _)
Dedupe(chunks, seen) ==
  IF chunks = <<>> THEN <<>>
  ELSE IF Head(chunks).row_hash \in seen THEN Dedupe(Tail(chunks), seen)
       ELSE <<Head(chunks)>> \o Dedupe(Tail(chunks), seen \cup {Head(chunks).row_hash})

\* lines 203-239
make_chunks(doc_id, source_uri, pages) ==
  Dedupe(Candidates(doc_id, source_uri, pages, 1), {})

\* lines 344-357: what process_one returns when nothing raises
process_one(source, pages, use_local) ==
  make_chunks(DocId(source), SourceUri(source, use_local), pages)

(* ------------------------------------------------------ batches, manifest *)
\* line 244: len(range(0, len, n)) for n other than 0
NumBatches(len, n) == IF n > 0 THEN (len + n - 1) \div n ELSE 0

\* lines 242-245: the lists the generator yields, for n other than 0
batched(xs, n) ==
  [k \in 1..NumBatches(Len(xs), n) |->
     SubSeq(xs, (k - 1) * n + 1, IF k * n < Len(xs) THEN k * n ELSE Len(xs))]

\* lines 257-261: payload_items
PayloadItems(batch) ==
  [i \in 1..Len(batch) |->
     [id |-> batch[i].id, text |-> batch[i].text, metadata |-> batch[i].metadata]]

\* lines 278-292: records (ts, the time of the run, is left out)
ManifestRecords(rows) ==
  [i \in 1..Len(rows) |->
     [doc_id |-> rows[i].metadata.doc_id,
      chunk_id |-> rows[i].id,
      row_hash |-> rows[i].row_hash,
      embedding_model |-> "bge-m3",
      dim |-> 1024,
      source_uri |-> rows[i].metadata.source_uri,
      page |-> rows[i].metadata.page,
      token_count |-> rows[i].token_count,
      lang |-> rows[i].metadata.lang,
      schema_version |-> 1]]

(* ---------------------------------------------------------------- inputs *)
\* the text pypdf extracts from a page
StatementPage ==
  <<"S", "t", "a", "t", "e", "m", "e", "n", "t", " ", "o", "f", " ", "A",
    "c", "c", "o", "u", "n", "t">>

\* the same text with a tab, a non-breaking space and a newline
StatementPageSpaced ==
  <<"S", "t", "a", "t", "e", "m", "e", "n", "t", "\t", "o", "f", Nbsp, " ",
    "A", "c", "c", "o", "u", "n", "t", "\n">>

BalancePage ==
  <<"B", "a", "l", "a", "n", "c", "e", " ", "c", "a", "r", "r", "i", "e",
    "d", " ", "f", "o", "r", "w", "a", "r", "d">>

\* too short to be a chunk
ShortPage == <<"P", "a", "g", "e", " ", "2">>

\* 20 characters, 19 once the two spaces are one: one short of a valid chunk
NearPage ==
  <<"S", "t", "a", "t", "e", "m", "e", "n", "t", " ", " ", "o", "f", " ",
    "A", "c", "c", "o", "u", "n">>

\* extract_text() gave nothing, or raised (lines 171-173)
EmptyPage == <<>>

RawPages == {StatementPage, StatementPageSpaced, BalancePage, ShortPage, NearPage, EmptyPage}

PageLists == UNION {[1..n -> RawPages] : n \in 0..MaxPages}

\* the PDFs of the bucket or of the working directory: key and pages
Documents ==
  {[key |-> <<"x", "/", "a", ".", "p", "d", "f">>,
    pages |-> <<StatementPage, ShortPage, BalancePage>>],
   [key |-> <<"x", "/", "b", ".", "p", "d", "f">>,
    pages |-> <<StatementPageSpaced>>],
   [key |-> <<"y", "/", "a", ".", "p", "d", "f">>,
    pages |-> <<BalancePage, BalancePage>>],
   [key |-> <<"x", "/", "c", ".", "p", "d", "f">>,
    pages |-> <<ShortPage, EmptyPage>>]}

\* the lists of distinct documents a run is given
DocumentLists ==
  UNION {{ds \in [1..n -> Documents] : \A i, j \in 1..n : i # j => ds[i] # ds[j]} :
           n \in 0..MaxDocs}

\* "s3://bucket/" of line 148
S3Root == <<"s", "3", ":", "/", "/", "B", "/">>

\* line 326 and line 330: the source of a document in each mode
SourceOfKey(key, use_local) == IF use_local THEN key ELSE S3Root \o key

\* --batch-size and --max-chunks take any integer (lines 314 and 318)
BatchSizes == {-1, 0, 1, 2, DefaultBatchSize}

MaxChunksValues == {-1, 0, 1, 3}

ArgSets ==
  [dry_run : BOOLEAN, use_local : BOOLEAN, batch_size : BatchSizes,
   max_chunks : MaxChunksValues]

(* ------------------------------------------------------------------ main *)
NoFuture == [state |-> "pending", result |-> <<>>, failed |-> FALSE]

\* lines 333-335: no PDF, main returns
IngestNoPdfs ==
  /\ ing_pc = "start"
  /\ pdf_sources = <<>>
  /\ ing_pc' = "exit"
  /\ ing_ret' = "no_pdfs"
  /\ UNCHANGED <<args, pdf_sources, pages_of, futures, all_chunks, batch_no, total,
                 posted, manifests, notIngest>>

\* lines 363-364: one task per source is handed to the pool
Submit ==
  /\ ing_pc = "start"
  /\ pdf_sources # <<>>
  /\ futures' = [i \in 1..Len(pdf_sources) |-> NoFuture]
  /\ ing_pc' = "pool"
  /\ UNCHANGED <<args, pdf_sources, pages_of, all_chunks, batch_no, total, posted,
                 manifests, ing_ret, notIngest>>

\* lines 343-357, on a worker thread: the task of source i returns its chunks
ProcessOne(i) ==
  /\ ing_pc = "pool"
  /\ i \in DOMAIN futures
  /\ futures[i].state = "pending"
  /\ futures' = [futures EXCEPT ![i] =
                   [state |-> "finished",
                    result |-> process_one(pdf_sources[i], pages_of[i], args.use_local),
                    failed |-> FALSE]]
  /\ UNCHANGED <<args, pdf_sources, pages_of, ing_pc, all_chunks, batch_no, total,
                 posted, manifests, ing_ret, notIngest>>

\* the exception of a task ends main
ProcessOneFail_Aborts(i) ==
  /\ ing_pc = "pool"
  /\ i \in DOMAIN futures
  /\ futures[i].state = "pending"
  /\ ing_pc' = "exit"
  /\ ing_ret' = "raised"
  /\ UNCHANGED <<args, pdf_sources, pages_of, futures, all_chunks, batch_no, total,
                 posted, manifests, notIngest>>

\* lines 358-360: reading, downloading, extracting or chunking raised; the
\* task returns []
ProcessOneFail(i) ==
  /\ ing_pc = "pool"
  /\ i \in DOMAIN futures
  /\ futures[i].state = "pending"
  /\ futures' = [futures EXCEPT ![i] =
                   [state |-> "finished", result |-> <<>>, failed |-> TRUE]]
  /\ UNCHANGED <<args, pdf_sources, pages_of, ing_pc, all_chunks, batch_no, total,
                 posted, manifests, ing_ret, notIngest>>

\* lines 365-367: as_completed yields a finished task, its chunks are appended
MergeChunks(i) ==
  /\ ing_pc = "pool"
  /\ i \in DOMAIN futures
  /\ futures[i].state = "finished"
  /\ all_chunks' = all_chunks \o futures[i].result
  /\ futures' = [futures EXCEPT ![i].state = "merged"]
  /\ UNCHANGED <<args, pdf_sources, pages_of, ing_pc, batch_no, total, posted,
                 manifests, ing_ret, notIngest>>

\* lines 369-377, once every task was yielded: the cap of --max-chunks
CapChunks ==
  /\ ing_pc = "pool"
  /\ \A i \in 1..Len(futures) : futures[i].state = "merged"
  /\ all_chunks' =
       IF ~args.dry_run /\ args.max_chunks > 0 /\ Len(all_chunks) > args.max_chunks
       THEN SubSeq(all_chunks, 1, args.max_chunks)
       ELSE all_chunks
  /\ ing_pc' = "prepared"
  /\ UNCHANGED <<args, pdf_sources, pages_of, futures, batch_no, total, posted,
                 manifests, ing_ret, notIngest>>

\* lines 380-479: the chunks are printed and main returns
DryRun ==
  /\ ing_pc = "prepared"
  /\ args.dry_run
  /\ ing_pc' = "exit"
  /\ ing_ret' = "dry_run"
  /\ UNCHANGED <<args, pdf_sources, pages_of, futures, all_chunks, batch_no, total,
                 posted, manifests, notIngest>>

\* line 244 with n = 0: range() raises ValueError at the head of the loop
BatchSizeZero ==
  /\ ing_pc = "prepared"
  /\ ~args.dry_run
  /\ args.batch_size = 0
  /\ ing_pc' = "exit"
  /\ ing_ret' = "raised"
  /\ UNCHANGED <<args, pdf_sources, pages_of, futures, all_chunks, batch_no, total,
                 posted, manifests, notIngest>>

\* the batches are posted in dry-run mode too
UpsertBatch_InDryRun(ok) ==
  /\ ing_pc = "prepared"
  /\ args.batch_size # 0
  /\ batch_no < NumBatches(Len(all_chunks), args.batch_size)
  /\ posted' = Append(posted,
                 [items |-> PayloadItems(batched(all_chunks, args.batch_size)[batch_no + 1]),
                  ok |-> ok])
  /\ IF ok
     THEN /\ total' = total + Len(batched(all_chunks, args.batch_size)[batch_no + 1])
          /\ batch_no' = batch_no + 1
          /\ UNCHANGED <<ing_pc, ing_ret>>
     ELSE /\ ing_pc' = "exit"
          /\ ing_ret' = "raised"
          /\ UNCHANGED <<total, batch_no>>
  /\ UNCHANGED <<args, pdf_sources, pages_of, futures, all_chunks, manifests, notIngest>>

\* lines 484-492, one iteration: the next batch is posted to /upsert (lines
\* 257-263); ok is "the answer has status 200", else raise_for_status or the
\* post raises and main ends
UpsertBatch(ok) ==
  /\ ing_pc = "prepared"
  /\ ~args.dry_run
  /\ args.batch_size # 0
  /\ batch_no < NumBatches(Len(all_chunks), args.batch_size)
  /\ posted' = Append(posted,
                 [items |-> PayloadItems(batched(all_chunks, args.batch_size)[batch_no + 1]),
                  ok |-> ok])
  /\ IF ok
     THEN /\ total' = total + Len(batched(all_chunks, args.batch_size)[batch_no + 1])
          /\ batch_no' = batch_no + 1
          /\ UNCHANGED <<ing_pc, ing_ret>>
     ELSE /\ ing_pc' = "exit"
          /\ ing_ret' = "raised"
          /\ UNCHANGED <<total, batch_no>>
  /\ UNCHANGED <<args, pdf_sources, pages_of, futures, all_chunks, manifests, notIngest>>

\* lines 493-503, after the last batch in S3 mode: write_manifest(all_chunks);
\* ok is "the upload went through" (line 301)
WriteManifest(ok) ==
  /\ ing_pc = "prepared"
  /\ ~args.dry_run
  /\ args.batch_size # 0
  /\ batch_no = NumBatches(Len(all_chunks), args.batch_size)
  /\ ~args.use_local
  /\ manifests' = IF ok THEN Append(manifests, ManifestRecords(all_chunks)) ELSE manifests
  /\ ing_ret' = IF ok THEN "ok" ELSE "raised"
  /\ ing_pc' = "exit"
  /\ UNCHANGED <<args, pdf_sources, pages_of, futures, all_chunks, batch_no, total,
                 posted, notIngest>>

\* lines 504-505: no manifest for local files
SkipManifest ==
  /\ ing_pc = "prepared"
  /\ ~args.dry_run
  /\ args.batch_size # 0
  /\ batch_no = NumBatches(Len(all_chunks), args.batch_size)
  /\ args.use_local
  /\ ing_ret' = "ok"
  /\ ing_pc' = "exit"
  /\ UNCHANGED <<args, pdf_sources, pages_of, futures, all_chunks, batch_no, total,
                 posted, manifests, notIngest>>

\* the other services as they start (nothing of them moves during a run)
OthersInit ==
  /\ StoreInit
  /\ RAG_MIN_SCORE = DefaultMinScore
  /\ MAX_CONTEXT_CHARS = DefaultMaxContextChars
  /\ ChatIdle
  /\ chat_ret = "none"
  /\ life = "running"

\* one run of the script over some documents with some options
InitIngest ==
  /\ OthersInit
  /\ args \in ArgSets
  /\ \E ds \in DocumentLists :
       /\ pdf_sources = [i \in 1..Len(ds) |-> SourceOfKey(ds[i].key, args.use_local)]
       /\ pages_of = [i \in 1..Len(ds) |-> ds[i].pages]
  /\ IngestStart

NextIngest ==
  \/ IngestNoPdfs
  \/ Submit
  \/ \E i \in 1..MaxDocs : ProcessOne(i)
  \/ \E i \in 1..MaxDocs : ProcessOneFail(i)
  \/ \E i \in 1..MaxDocs : MergeChunks(i)
  \/ CapChunks
  \/ DryRun
  \/ BatchSizeZero
  \/ \E ok \in BOOLEAN : UpsertBatch(ok)
  \/ \E ok \in BOOLEAN : WriteManifest(ok)
  \/ SkipManifest

SpecIngest == InitIngest /\ [][NextIngest]_vars

\* one document of any pages, under the default options
InitChunk ==
  /\ OthersInit
  /\ args = DefaultArgs
  /\ pdf_sources = <<SourceOfKey(<<"x", "/", "a", ".", "p", "d", "f">>, FALSE)>>
  /\ \E ps \in PageLists : pages_of = <<ps>>
  /\ IngestStart

NextChunk ==
  \/ Submit
  \/ \E i \in 1..MaxDocs : ProcessOne(i)
  \/ \E i \in 1..MaxDocs : MergeChunks(i)

SpecChunk == InitChunk /\ [][NextChunk]_vars

(* ================================================================ claims *)
\* position i of the index holds the normalized embedding of the text of row i
Aligned(ix, rows) ==
  /\ Len(ix) = Len(rows)
  /\ \A i \in 1..Len(rows) : ix[i] = Normalize(Encode(rows[i].text))

\* C1: whenever no mutation is in progress (the lock is free), after any
\* upsert and reset calls, the index and the metadata have the same length and
\* position i of the index is the normalized embedding of the text of row i.
C1_Alignment == (ready /\ lock = "free") => Aligned(index, meta_df)

\* a rebuild happened: the second upsert replaced an id of a two-row store
C1_Witness ==
  /\ lock = "free"
  /\ calls = 2
  /\ Len(meta_df) = 3
  /\ \A c \in Clients : pc[c] \in {"idle", "done"}

\* C2: a search that runs while an upsert or a reset runs returns, at every
\* position, the record whose vector was scored there: the score of every
\* result is the inner product of the query with the embedding of the text
\* that result carries (the embedding tells the texts apart), never a score
\* of one index version beside a row of another metadata version.
C2_SearchSeesOneVersion ==
  \A c \in Clients : \A i \in 1..Len(results[c]) :
    results[c][i].score =
      InnerProduct(Normalize(Encode(Strip(query[c]))),
                   Normalize(Encode(results[c][i].text)))

\* C3: the pair a restart loads after a crash, whenever the crash struck, is
\* aligned (an empty pair is aligned).
C3_RestartLoadsAligned ==
  [][(~ready /\ ready') => Aligned(index', meta_df')]_vars

IdsOfRows(rows) == {rows[i].id : i \in 1..Len(rows)}

\* C5: an upsert of one item whose id is already stored leaves the number of
\* records unchanged, and the store then holds, for that id, the new row alone
\* (so no later search can return the old text for that id).
C5_ReplaceKeepsCount ==
  \A c \in Clients :
    (/\ pc[c] \in {"u_persist_idx", "u_persist_meta", "u_unlock"}
     /\ Len(items[c]) = 1
     /\ items[c][1].id \in IdsOfRows(before[c]))
    => /\ Len(meta_df) = Len(before[c])
       /\ \A i \in 1..Len(meta_df) :
            meta_df[i].id = items[c][1].id => meta_df[i] = NewRows(items[c])[1]

\* C6: no two records of the metadata sequence have the same id.
C6_IdsUnique ==
  \A i, j \in 1..Len(meta_df) : i # j => meta_df[i].id # meta_df[j].id

\* C7: when a write of _persist fails during an upsert, the call raises the
\* I/O error, the lock is released, and the index and the metadata stay as
\* the call mutated them (the remaining rows followed by the new rows,
\* aligned with the index): nothing is rolled back.
C7_PersistFailureKeepsMutation ==
  [][\A c \in Clients :
       (pc[c] \in {"u_persist_idx", "u_persist_meta"} /\ pc'[c] = "done") =>
         /\ ret'[c].status = "io_error"
         /\ lock' = "free"
         /\ index' = index
         /\ meta_df' = UpsertResult(before[c], items[c])
         /\ Aligned(index', meta_df')
         /\ disk' = disk]_vars

\* an upsert failed in _persist and the metadata file lags behind memory
C7_Witness ==
  \E c \in Clients :
    /\ pc[c] = "done"
    /\ ret[c].status = "io_error"
    /\ items[c] # <<>>
    /\ lock = "free"
    /\ meta_df = UpsertResult(before[c], items[c])
    /\ meta_df # before[c]
    /\ disk.meta # File(meta_df)

\* C8: a second application of the same upsert call changes nothing: once a
\* call has mutated the store (the remaining rows followed by its new rows),
\* applying the call again to that state gives the same metadata sequence and
\* the same count, and the same index.
C8_UpsertIdempotent ==
  \A c \in Clients : pc[c] \in {"u_persist_idx", "u_persist_meta", "u_unlock"} =>
    /\ meta_df = UpsertResult(before[c], items[c])
    /\ UpsertResult(meta_df, items[c]) = meta_df
    /\ Len(UpsertResult(meta_df, items[c])) = committed[c]
    /\ EmbedAll(TextsOf(UpsertResult(meta_df, items[c]))) = index

\* a repeated call: the upsert found the store as its own result and wrote it
C8_Witness ==
  \E c \in Clients :
    /\ pc[c] = "u_unlock"
    /\ Len(before[c]) >= 2
    /\ before[c] = UpsertResult(before[c], items[c])
    /\ meta_df = before[c]
    /\ disk.meta = File(meta_df)

\* C9: every successful upsert returns the number of items supplied and the
\* number of records the store held right after the call's own mutation, for
\* every item list (the empty one too) and whatever runs concurrently (a
\* reset returns {total_items: 0} and mutates to zero records).
C9_UpsertReturnsCounts ==
  \A c \in Clients : (pc[c] = "done" /\ ret[c].status = "ok") =>
    /\ ret[c].upserted = Len(items[c])
    /\ ret[c].hasTotal
    /\ ret[c].total = committed[c]

\* the positions (1-based) a search was handed by the index
ReturnedPositions(hs) == {hs[i].idx + 1 : i \in {j \in 1..Len(hs) : hs[j].idx >= 0}}

Min(a, b) == IF a <= b THEN a ELSE b

Max(a, b) == IF a >= b THEN a ELSE b

\* C11: for every integer top_k (zero, negative, above 50) and every
\* non-blank query, search asks the index for k = max(1, min(top_k, 50))
\* positions; on an aligned store of N records it returns exactly min(k, N)
\* results; positions outside [0, len(metadata)) are skipped, the search
\* still returns its results and each of them is a stored row.
C11_TopKClamped ==
  \A c \in Clients :
    (handler[c] = "search" /\ pc[c] = "done" /\ Strip(query[c]) # "") =>
      LET k == Max(1, Min(topk[c], 50))
          N == Len(meta_df)
          inRange == {i \in 1..Len(hits[c]) : hits[c][i].idx \in 0..(N - 1)}
      IN  /\ ret[c].status = "results"
          /\ index # <<>> => Len(hits[c]) = k
          /\ Aligned(index, meta_df) => Len(results[c]) = Min(k, N)
          /\ Len(results[c]) = Cardinality(inRange)
          /\ \A i \in 1..Len(results[c]) :
               \E j \in 1..N : results[c][i].id = meta_df[j].id
                               /\ results[c][i].text = meta_df[j].text

\* top_k = 51 on three aligned records: 50 positions asked, three results
C11_Witness ==
  \E c \in Clients :
    /\ pc[c] = "done"
    /\ topk[c] = 51
    /\ Len(hits[c]) = 50
    /\ Aligned(index, meta_df)
    /\ Len(results[c]) = 3

\* a position past the end of the metadata was skipped: the index holds one
\* vector more than there are rows, and the search returned the rows only
C11_WitnessSkipped ==
  \E c \in Clients :
    /\ pc[c] = "done"
    /\ topk[c] = -1
    /\ Len(index) = 1
    /\ meta_df = <<>>
    /\ Len(hits[c]) = 1
    /\ results[c] = <<>>

\* C12: a search whose query is empty or whitespace only, on any state of an
\* initialized service, returns an empty result list at once and makes no
\* call of the embedder.
C12_BlankQueryNoEmbed ==
  [][\A c \in Clients :
       (ready /\ pc[c] = "idle" /\ handler'[c] = "search" /\ Strip(query'[c]) = "") =>
         /\ pc'[c] = "done"
         /\ ret'[c].status = "results"
         /\ results'[c] = <<>>
         /\ hits'[c] = <<>>
         /\ encodes'[c] = 0]_vars

\* a whitespace-only query was answered on a store that holds records
C12_Witness ==
  \E c \in Clients :
    /\ handler[c] = "search"
    /\ query[c] = " "
    /\ pc[c] = "done"
    /\ ret[c].status = "results"
    /\ encodes[c] = 0
    /\ Len(index) >= 2

\* C13: on startup, when both files exist and the loaded index has the
\* embedder's dimension the store is the loaded pair; when both exist and the
\* dimensions differ the loaded data is discarded and the store is empty;
\* when a file is missing the store is empty; in every case the dimension of
\* the index equals the embedder's dimension.
C13_StartupDimension ==
  [][(~ready /\ ready') =>
       LET both == disk.idx.exists /\ disk.meta.exists
       IN  /\ EMBED_DIM' = DimOf(embed_model)
           /\ (both /\ disk.d = EMBED_DIM') =>
                 (index' = disk.idx.data /\ meta_df' = disk.meta.data)
           /\ (both /\ disk.d # EMBED_DIM') => (index' = <<>> /\ meta_df' = <<>>)
           /\ ~both => (index' = <<>> /\ meta_df' = <<>>)
           /\ index_d' = EMBED_DIM'
           /\ disk' = disk]_vars

\* the service started empty beside files written under another model
C13_Witness ==
  /\ ready
  /\ disk.idx.exists
  /\ disk.meta.exists
  /\ disk.idx.data # <<>>
  /\ disk.meta.data # <<>>
  /\ disk.d # EMBED_DIM
  /\ index = <<>>
  /\ meta_df = <<>>
  /\ index_d = EMBED_DIM

ResetPcs == {"r_index", "r_meta", "r_persist_idx", "r_persist_meta", "r_unlock"}

\* C14: reset on an initialized store holds the lock while it replaces the
\* index by an empty index of the same dimension and the metadata by an empty
\* sequence; when it has persisted, still holding the lock, memory and both
\* files hold the empty pair; it returns total_items 0; and a search issued
\* once the store was emptied by reset, no reset running and no upsert having
\* added since, returns no results.
C14_ResetClears ==
  [][/\ \A c \in Clients :
          /\ pc'[c] \in ResetPcs => (handler'[c] = "reset" /\ lock' = c)
          /\ (pc[c] = "r_index" /\ pc'[c] = "r_meta") =>
                (index' = <<>> /\ index_d' = index_d /\ index_d' = EMBED_DIM)
          /\ (pc[c] = "r_meta" /\ pc'[c] = "r_persist_idx") => meta_df' = <<>>
          /\ pc'[c] = "r_unlock" =>
                /\ index' = <<>>
                /\ meta_df' = <<>>
                /\ disk' = [idx |-> File(<<>>), meta |-> File(<<>>), d |-> EMBED_DIM]
          /\ (pc[c] = "r_unlock" /\ pc'[c] # "r_unlock") =>
                /\ pc'[c] = "done"
                /\ lock' = "free"
                /\ ret'[c].status = "ok"
                /\ ret'[c].hasTotal
                /\ ret'[c].total = 0
                /\ disk' = disk
     /\ \A c \in Clients :
          (/\ cleared
           /\ \A d \in Clients : pc[d] \notin ResetPcs
           /\ pc[c] = "idle"
           /\ handler'[c] = "search") =>
            /\ pc'[c] = "done"
            /\ ret'[c].status \in {"results", "model_error"}
            /\ results'[c] = <<>>
            /\ hits'[c] = <<>>]_vars

\* a reset has returned after an earlier mutation, and a search with a
\* non-blank query issued after it returned nothing
C14_Witness ==
  \E c, d \in Clients :
    /\ pc[d] = "done"
    /\ handler[d] = "reset"
    /\ ret[d].status = "ok"
    /\ ret[d].total = 0
    /\ calls = 2
    /\ cleared
    /\ disk.meta = File(<<>>)
    /\ pc[c] = "done"
    /\ handler[c] = "search"
    /\ Strip(query[c]) # ""
    /\ ret[c].status = "results"
    /\ results[c] = <<>>

\* C15: upsert, search and reset called before the embedder, the index and
\* the metadata are initialized fail with the service-not-ready error, and
\* the call changes neither the state in memory nor the files.
C15_NotReadyChangesNothing ==
  [][\A c \in Clients :
       (~ready /\ pc[c] = "idle" /\ pc'[c] # "idle") =>
         /\ handler'[c] \in Handlers
         /\ pc'[c] = "done"
         /\ ret'[c].status = "not_ready"
         /\ encodes'[c] = 0
         /\ UNCHANGED <<ready, index, meta_df, lock, disk, embed_model, EMBED_DIM,
                        index_d>>]_vars

\* a reset was refused while both files hold records
C15_Witness ==
  \E c \in Clients :
    /\ ~ready
    /\ pc[c] = "done"
    /\ handler[c] = "reset"
    /\ ret[c].status = "not_ready"
    /\ disk.idx.exists
    /\ disk.meta.exists
    /\ disk.meta.data # <<>>

\* C16: for every list of results and every configured limit, the context
\* block that budget packing assembles has at most MAX_CONTEXT_CHARS
\* characters.
C16_BlockWithinLimit ==
  chat_pc \in {"built", "injected", "tagged"} => Len(context_block) <= MAX_CONTEXT_CHARS

\* the positions of the results whose score reaches the threshold
KeptAt(raw, min) == {i \in 1..Len(raw) : raw[i].score >= min}

\* the j-th smallest element of a set of numbers
Nth(S, j) == CHOOSE i \in S : Cardinality({l \in S : l <= i}) = j

\* the characters of the snippets of the first n results, numbered 1..n
RECURSIVE SnippetChars(_, _)
SnippetChars(rs, n) ==
  IF n = 0 THEN 0 ELSE SnippetChars(rs, n - 1) + Len(Snippet(n, rs[n]))

\* C17: the results handed to budget packing are exactly the results whose
\* score is at least the threshold (a score equal to it is kept), in their
\* order; the block is made of the snippets of the first n of them, numbered
\* 1..n, n being the longest prefix whose snippets fit the limit: a result
\* below the threshold never appears in the block and takes neither budget
\* nor a header number, whatever the limit and the order of the results.
C17_BelowThresholdNeverPacked ==
  (chat_pc \in {"built", "injected"} /\ faiss.kind = "ok") =>
    LET raw == faiss.results
        K == KeptAt(raw, RAG_MIN_SCORE)
        n == num_chunks_sent
    IN  /\ Len(retrieved) = Cardinality(K)
        /\ \A j \in 1..Len(retrieved) : retrieved[j] = raw[Nth(K, j)]
        /\ \A j \in 1..Len(retrieved) : retrieved[j].score >= RAG_MIN_SCORE
        /\ n <= Len(retrieved)
        /\ SnippetChars(retrieved, n) <= MAX_CONTEXT_CHARS
        /\ n < Len(retrieved) => SnippetChars(retrieved, n + 1) > MAX_CONTEXT_CHARS
        /\ context_block =
             IF retrieved = <<>> THEN <<>>
             ELSE StripChars(Join(<<Preamble>>
                                    \o [j \in 1..n |-> Snippet(j, retrieved[j])]))

\* the first result was below the threshold, the second at the threshold,
\* and the block holds one chunk (the second result, under header [1])
C17_Witness ==
  /\ chat_pc = "built"
  /\ Len(faiss.results) = 2
  /\ faiss.results[1].score < RAG_MIN_SCORE
  /\ faiss.results[2].score = RAG_MIN_SCORE
  /\ num_chunks_sent = 1
  /\ Contains(context_block, Header(1, faiss.results[2]))

\* the chunks included under limit L1 are a prefix of those under limit L2
PackedPrefix(rs, L1, L2) ==
  LET a == Pack(rs, 1, 0, L1)
      b == Pack(rs, 1, 0, L2)
  IN  /\ Len(a) <= Len(b)
      /\ SubSeq(b, 1, Len(a)) = a
      /\ BuildContextBlock(rs, L1).included <= BuildContextBlock(rs, L2).included

\* the largest limit of the step-by-step comparison
MaxLimit == 52

\* C18: for a fixed list of results the number of chunks budget packing
\* includes does not decrease when the limit grows, and the chunks included
\* under a limit are a prefix of the chunks included under a larger limit:
\* for every two configured limits, and from each limit up to MaxLimit to
\* the next one.
C18_PackingMonotone ==
  chat_pc = "built" =>
    /\ num_chunks_sent = Len(Pack(retrieved, 1, 0, MAX_CONTEXT_CHARS))
    /\ \A L1, L2 \in Limits : L1 <= L2 => PackedPrefix(retrieved, L1, L2)
    /\ \A L \in 0..(MaxLimit - 1) : PackedPrefix(retrieved, L, L + 1)
    /\ PackedPrefix(retrieved, MaxLimit, DefaultMaxContextChars)

\* the limit let the first of two results in and kept the second out
C18_Witness ==
  /\ chat_pc = "built"
  /\ Len(retrieved) = 2
  /\ num_chunks_sent = 1
  /\ Len(Pack(retrieved, 1, 0, MaxLimit)) = 2
  /\ Len(Pack(retrieved, 1, 0, 0)) = 0

\* the search gave nothing usable: no request was made, another status than
\* 200, an exception, no result, or every result below the threshold
NoUsableContext ==
  \/ faiss.kind \in {"none", "status", "raised"}
  \/ \A i \in 1..Len(faiss.results) : faiss.results[i].score < RAG_MIN_SCORE

\* C19: when there is no usable context (no results, every result below the
\* threshold, a status other than 200, or an exception of the call), the
\* handler goes on with an empty result list, the block is empty and splicing
\* returns the message sequence as it was (same number, order and roles, no
\* system message added); building a context from an empty list gives an
\* empty block under every limit.
C19_NoContextLeavesMessages ==
  /\ chat_pc \in {"retrieved", "built", "injected"} =>
       /\ chat_ret = "none"
       /\ NoUsableContext => retrieved = <<>>
  /\ (chat_pc \in {"built", "injected"} /\ NoUsableContext) =>
       (context_block = <<>> /\ num_chunks_sent = 0)
  /\ (chat_pc = "injected" /\ NoUsableContext) => messages_for_vllm = base_messages
  /\ \A L \in Limits : BuildContextBlock(<<>>, L) = [block |-> <<>>, included |-> 0]

\* the call to the search service raised, and the two messages went on as
\* they were
C19_Witness ==
  /\ chat_pc = "injected"
  /\ faiss.kind = "raised"
  /\ Len(base_messages) = 2
  /\ messages_for_vllm = base_messages

\* C20: when the block is not empty, splicing inserts exactly one system
\* message carrying the block: at position 1 (0-based) when the sequence
\* starts with a system message, else at position 0; the result has one
\* message more than the input, and without the inserted message it is the
\* input in its order.
C20_SpliceInsertsOne ==
  (chat_pc = "injected" /\ context_block # <<>>) =>
    LET p == IF base_messages # <<>> /\ base_messages[1].role = "system" THEN 2 ELSE 1
        out == messages_for_vllm
    IN  /\ Len(out) = Len(base_messages) + 1
        /\ out[p].role = "system"
        /\ out[p].content = SystemPrefix \o context_block
        /\ \A i \in 1..Len(base_messages) :
             base_messages[i] = IF i < p THEN out[i] ELSE out[i + 1]

\* the context message went between a system message and a user message
C20_Witness ==
  /\ chat_pc = "injected"
  /\ context_block # <<>>
  /\ Len(base_messages) = 2
  /\ base_messages[1].role = "system"
  /\ base_messages[2].role = "user"
  /\ Len(messages_for_vllm) = 3
  /\ messages_for_vllm[1] = base_messages[1]
  /\ messages_for_vllm[2].role = "system"
  /\ messages_for_vllm[3] = base_messages[2]

\* a is the beginning of b
IsPrefix(a, b) == Len(a) <= Len(b) /\ SubSeq(b, 1, Len(a)) = a

\* a is the end of b
IsSuffix(a, b) == Len(a) <= Len(b) /\ SubSeq(b, Len(b) - Len(a) + 1, Len(b)) = a

\* s.count(sub) for a sub that cannot overlap itself
Occurrences(s, sub) ==
  Cardinality({i \in 1..(Len(s) - Len(sub) + 1) : SubSeq(s, i, i + Len(sub) - 1) = sub})

\* C21: tagging of the last user message. A content that already contains
\* the tag is left untouched in both modes; otherwise, with the flag disabled
\* the tag is appended (the original content comes first, the tag ends the
\* content and occurs once), and with the flag enabled the content is left
\* untouched, also when it ends in whitespace.
C21_TaggingByMode ==
  [][(chat_pc = "injected" /\ chat_pc' = "tagged"
        /\ LastUserIdx(messages_for_vllm) # 0) =>
       LET i == LastUserIdx(messages_for_vllm)
           c == messages_for_vllm[i].content
           d == messages_for_vllm'[i].content
       IN  IF Contains(c, NoThinkTag) \/ think_mode' THEN d = c
           ELSE /\ IsPrefix(c, d)
                /\ IsSuffix(NoThinkTag, d)
                /\ Occurrences(d, NoThinkTag) = 1]_vars

\* the items of the bodies bs posted to /upsert, in the order they were sent
RECURSIVE ItemsOf(_)
ItemsOf(bs) == IF bs = <<>> THEN <<>> ELSE Head(bs).items \o ItemsOf(Tail(bs))

\* C22: in the chunks handed to upsert during one run over several
\* documents, no two chunks have the same content hash, also when the same
\* cleaned text comes from different documents: only the first occurrence is
\* upserted.
C22_UpsertedHashesDistinct ==
  \A i, j \in 1..Len(ItemsOf(posted)) :
    i # j => sha256_hex(ItemsOf(posted)[i].text) # sha256_hex(ItemsOf(posted)[j].text)

\* the pages of a document whose cleaned text is t, t being a valid chunk
PagesWith(pages, t) == {i \in 1..Len(pages) : clean_text(pages[i]) = t}

\* C23: the chunk list make_chunks returns for one document has pairwise
\* distinct cleaned texts; each chunk is the one of the earliest page with its
\* cleaned text, every valid cleaned text of the document is retained, and the
\* chunks are in page order (two pages "Statement of Account" give one chunk).
C23_DedupeKeepsFirst ==
  /\ \A f \in 1..Len(futures) :
       (futures[f].state # "pending" /\ ~futures[f].failed) =>
         LET out == futures[f].result
             pages == pages_of[f]
         IN  /\ \A i, j \in 1..Len(out) : i # j => out[i].text # out[j].text
             /\ \A i \in 1..Len(out) :
                  /\ PagesWith(pages, out[i].text) # {}
                  /\ valid_chunk(out[i].text)
                  /\ \A p \in PagesWith(pages, out[i].text) : out[i].metadata.page <= p
                  /\ out[i].metadata.page \in PagesWith(pages, out[i].text)
             /\ \A p \in 1..Len(pages) :
                  valid_chunk(clean_text(pages[p])) =>
                    \E i \in 1..Len(out) : out[i].text = clean_text(pages[p])
             /\ \A i, j \in 1..Len(out) :
                  i < j => out[i].metadata.page < out[j].metadata.page
  /\ Len(make_chunks(<<"d">>, <<"u">>, <<StatementPage, StatementPage>>)) = 1

\* a document whose third page repeats the first one (after cleaning) and
\* whose second page is another text: two chunks, of pages 1 and 2
C23_Witness ==
  /\ Len(futures) = 1
  /\ futures[1].state = "finished"
  /\ pages_of[1] = <<StatementPage, BalancePage, StatementPageSpaced>>
  /\ Len(futures[1].result) = 2
  /\ futures[1].result[1].metadata.page = 1
  /\ futures[1].result[2].metadata.page = 2

\* every task of the pool was yielded by as_completed (line 369 is next)
AllMerged ==
  /\ ing_pc = "pool"
  /\ \A i \in 1..Len(futures) : futures[i].state = "merged"

\* the chunks of cs that come from source i of the run
ChunksFrom(cs, i) ==
  SelectSeq(cs, LAMBDA c :
    IsPrefix(SourceUri(pdf_sources[i], args.use_local) \o PageFragment,
             c.metadata.source_uri))

\* the number of chunks the tasks 1..n returned
RECURSIVE ResultCount(_)
ResultCount(n) == IF n = 0 THEN 0 ELSE Len(futures[n].result) + ResultCount(n - 1)

\* C24: a document whose processing fails contributes no chunk and does not
\* abort the batch: whatever documents fail, the merged list holds exactly
\* the chunks of the documents that did not fail, and main goes on to the
\* upsert phase (it never ends while tasks are pending or unmerged).
C24_FailedDocumentIsolated ==
  /\ AllMerged =>
       /\ \A i \in 1..Len(futures) :
            ChunksFrom(all_chunks, i) =
              IF futures[i].failed THEN <<>>
              ELSE process_one(pdf_sources[i], pages_of[i], args.use_local)
       /\ Len(all_chunks) = ResultCount(Len(futures))
  /\ ing_pc = "pool" => ing_ret = "none"
  /\ (ing_pc = "exit" /\ futures # <<>>) =>
       \A i \in 1..Len(futures) : futures[i].state = "merged"

\* one of two documents failed and the chunks of the other one were posted
C24_Witness ==
  /\ Len(futures) = 2
  /\ futures[1].failed
  /\ ~futures[2].failed
  /\ futures[2].result # <<>>
  /\ posted # <<>>
  /\ posted[1].ok
  /\ ItemsOf(posted) = PayloadItems(futures[2].result)

\* the chunk ids of manifest records and of posted items
ChunkIds(rs) == [i \in 1..Len(rs) |-> rs[i].chunk_id]

ItemIds(its) == [i \in 1..Len(its) |-> its[i].id]

\* C25: the manifest is written at most once per run, only after every
\* upsert batch of the run went through, and it has one record per chunk
\* sent to upsert (same chunks, same order); when a batch fails no manifest
\* is written and the batches sent before it stay sent.
C25_ManifestMatchesUpserts ==
  /\ Len(manifests) <= 1
  /\ manifests # <<>> =>
       /\ \A b \in 1..Len(posted) : posted[b].ok
       /\ ChunkIds(manifests[1]) = ItemIds(ItemsOf(posted))
       /\ \A i \in 1..Len(manifests[1]) :
            manifests[1][i].row_hash = sha256_hex(ItemsOf(posted)[i].text)
  /\ (\E b \in 1..Len(posted) : ~posted[b].ok) =>
       /\ manifests = <<>>
       /\ \A b \in 1..(Len(posted) - 1) : posted[b].ok

\* C26: in dry-run mode no upsert request is sent and no manifest is
\* written, whatever the documents and the other options.
C26_DryRunSendsNothing ==
  args.dry_run => (posted = <<>> /\ manifests = <<>>)

\* a dry run over documents that gave chunks ended, under a cap and a batch
\* size that would have applied
C26_Witness ==
  /\ args.dry_run
  /\ args.max_chunks = 1
  /\ args.batch_size = 1
  /\ ~args.use_local
  /\ ing_ret = "dry_run"
  /\ Len(all_chunks) >= 2

\* the positions of upsert and reset inside "with _lock"
CriticalPcs ==
  {"u_mask", "u_drop", "u_add", "u_concat", "u_persist_idx", "u_persist_meta",
   "u_unlock", "r_index", "r_meta", "r_persist_idx", "r_persist_meta", "r_unlock"}

\* the positions of lifespan inside "with _lock"
CriticalLife == {"persist_idx", "persist_meta", "unlock"}

\* the threads inside a critical section
InCritical ==
  {c \in Clients : pc[c] \in CriticalPcs}
    \cup (IF life \in CriticalLife THEN {"lifespan"} ELSE {})

\* the one thread a step belongs to is th: only its position moves
StepOf(th) ==
  IF th = "lifespan" THEN life' # life /\ pc' = pc
  ELSE /\ th \in Clients
       /\ pc'[th] # pc[th]
       /\ \A d \in Clients \ {th} : pc'[d] = pc[d]
       /\ life' = life

\* C27: at most one mutation is in flight: the critical sections of upsert,
\* of reset and of the shutdown persist are mutually exclusive (whoever is
\* inside one holds the lock), and every step that changes the index, the
\* metadata sequence or the persisted files of the running service is a step
\* of the lock holder inside its critical section.
C27_OneMutationInFlight ==
  /\ [](Cardinality(InCritical) <= 1 /\ \A th \in InCritical : lock = th)
  /\ [][(ready /\ ready' /\ <<index, meta_df, disk>>' # <<index, meta_df, disk>>) =>
          (lock \in InCritical /\ StepOf(lock))]_vars

\* the shutdown persist is between its two writes while an upsert and a reset
\* wait for the lock
C27_Witness ==
  /\ lock = "lifespan"
  /\ life = "persist_meta"
  /\ \E c, d \in Clients : pc[c] = "u_lock" /\ pc[d] = "r_lock"

\* the positions of the rows whose id is not among those of the items its
KeptPositions(rows, its) ==
  {i \in 1..Len(rows) : \A j \in 1..Len(its) : its[j].id # rows[i].id}

\* C28: the metadata sequence an upsert leaves is the kept records (id not
\* in the call) in their original relative order, followed by the new
\* records in the order of the call's item list; when no id is replaced it
\* is the previous sequence followed by the new records.
C28_KeptThenNewInOrder ==
  [][\A c \in Clients :
       (pc[c] = "u_concat" /\ pc'[c] = "u_persist_idx") =>
         LET old == before[c]
             kept == KeptPositions(old, items[c])
             k == Cardinality(kept)
         IN  /\ Len(meta_df') = k + Len(items[c])
             /\ \A i \in 1..k : meta_df'[i] = old[Nth(kept, i)]
             /\ \A j \in 1..Len(items[c]) :
                  /\ meta_df'[k + j].id = items[c][j].id
                  /\ meta_df'[k + j].text = items[c][j].text
                  /\ meta_df'[k + j].metadata = OrEmpty(items[c][j].metadata)
             /\ k = Len(old) => SubSeq(meta_df', 1, Len(old)) = old]_vars

\* an upsert of one item replaced the second of three records: the first and
\* the third, which differ, are now first and second, the new record is last
C28_Witness ==
  \E c \in Clients :
    /\ pc[c] = "u_persist_idx"
    /\ Len(before[c]) = 3
    /\ Len(items[c]) = 1
    /\ KeptPositions(before[c], items[c]) = {1, 3}
    /\ before[c][1] # before[c][3]
    /\ meta_df = <<before[c][1], before[c][3], NewRows(items[c])[1]>>

\* C29: when the embedder fails during an upsert, while embedding the new
\* items or while re-embedding the kept records, the call fails as a whole
\* and the index, the metadata sequence and the persisted files are as before
\* the call: the failing step and every step of the call before it change
\* none of them (no id removed, nothing appended), and the lock is free.
C29_EmbedFailureChangesNothing ==
  [][\A c \in Clients :
       /\ (pc'[c] = "done" /\ pc[c] # "done" /\ ret'[c].status = "model_error") =>
            /\ pc[c] \in {"idle", "u_mask"}
            /\ <<index, meta_df, disk>>' = <<index, meta_df, disk>>
            /\ pc[c] = "u_mask" => (meta_df' = before[c] /\ lock = c)
            /\ lock' = "free"
       /\ (pc'[c] \in {"u_lock", "u_mask"} /\ pc[c] # pc'[c]) =>
            /\ pc[c] \in {"idle", "u_lock"}
            /\ <<index, meta_df, disk>>' = <<index, meta_df, disk>>]_vars

\* the re-embedding of the kept records failed in an upsert that was about
\* to replace an id: the record it would have replaced is still there
C29_Witness ==
  \E c \in Clients :
    /\ pc[c] = "done"
    /\ ret[c].status = "model_error"
    /\ encodes[c] = 2
    /\ meta_df = before[c]
    /\ AnyExisting(meta_df, IdsOf(items[c]))
    /\ Len(meta_df) >= 2
    /\ lock = "free"

\* C30: the lock is released on every exit from a critical section, also
\* when re-embedding or persistence fails inside it: a step that leaves a
\* critical section frees the lock and the lock is held only inside one; under
\* fair scheduling every upsert or reset waiting for the lock gets it and
\* completes, with success or an error.
C30_LockReleasedAndAcquired ==
  /\ [](\A c \in Clients : lock = c => pc[c] \in CriticalPcs)
  /\ [][\A c \in Clients :
          (pc[c] \in CriticalPcs /\ pc'[c] \notin CriticalPcs) => lock' = "free"]_vars
  /\ \A c \in Clients : (pc[c] \in {"u_lock", "r_lock"}) ~> (pc[c] = "done")

\* persistence failed inside one client's critical section and the other
\* client holds the lock after it
C30_Witness ==
  \E c, d \in Clients :
    /\ c # d
    /\ pc[d] = "done"
    /\ handler[d] \in {"upsert", "reset"}
    /\ ret[d].status = "io_error"
    /\ lock = c
    /\ pc[c] \in CriticalPcs

\* the length of the first n rendered snippets of a result list
RECURSIVE SnippetsLen(_, _)
SnippetsLen(rs, n) ==
  IF n = 0 THEN 0 ELSE SnippetsLen(rs, n - 1) + Len(Snippet(n, rs[n]))

\* the length of the longest prefix of a result list whose snippets fit
FitPrefix(rs, limit) ==
  CHOOSE n \in 0..Len(rs) :
    /\ SnippetsLen(rs, n) <= limit
    /\ \A m \in 0..Len(rs) : SnippetsLen(rs, m) <= limit => m <= n

\* C31: budget packing is greedy and order-sensitive: the included chunks
\* are exactly the longest prefix of the filtered result list whose rendered
\* snippets fit the limit (the first result that would overflow and every
\* later one are dropped, even one that would fit), and the block holds the
\* snippets of that prefix with headers numbered 1..n in the given order.
C31_GreedyPrefix ==
  (chat_pc \in {"built", "injected", "tagged"} /\ retrieved # <<>>) =>
    LET n == FitPrefix(retrieved, MAX_CONTEXT_CHARS)
    IN  /\ num_chunks_sent = n
        /\ context_block =
             StripChars(Join(<<Preamble>>
                               \o [i \in 1..n |-> Snippet(i, retrieved[i])]))

\* the first result overflows the limit, the second alone would fit, and
\* nothing was included
C31_Witness ==
  /\ chat_pc = "built"
  /\ Len(retrieved) = 2
  /\ Len(Snippet(1, retrieved[1])) > MAX_CONTEXT_CHARS
  /\ Len(Snippet(2, retrieved[2])) <= MAX_CONTEXT_CHARS
  /\ num_chunks_sent = 0

\* two results were included and numbered 1 and 2
C31_WitnessNumbered ==
  /\ chat_pc = "built"
  /\ num_chunks_sent = 2
  /\ retrieved[1] # retrieved[2]
  /\ Contains(context_block, <<"[", "1", "]">>)
  /\ Contains(context_block, <<"[", "2", "]">>)

\* C32: a context system message is spliced into the conversation only if at
\* least one retrieved chunk was included in the block: when budget packing
\* includes zero chunks the block is empty and the message sequence is left
\* without a context message.
C32_NoChunkNoContext ==
  (chat_pc = "injected" /\ num_chunks_sent = 0) =>
    /\ context_block = <<>>
    /\ messages_for_vllm = base_messages

\* C33: turn-mode tagging runs after context splicing and can change only
\* the content of the last user-role message of the final (spliced) sequence:
\* the sequence is changed by the tagging step alone once it is spliced, that
\* step keeps its length and every role, leaves the inserted context message,
\* every system and assistant message and every earlier user message as they
\* were, and changes nothing when the sequence has no user message.
C33_TaggingFrame ==
  [][/\ (chat_pc = "injected" /\ messages_for_vllm' # messages_for_vllm) =>
          /\ chat_pc' = "tagged"
          /\ LastUserIdx(messages_for_vllm) # 0
          /\ Len(messages_for_vllm') = Len(messages_for_vllm)
          /\ \A i \in 1..Len(messages_for_vllm) :
               /\ messages_for_vllm'[i].role = messages_for_vllm[i].role
               /\ i # LastUserIdx(messages_for_vllm) =>
                    messages_for_vllm'[i] = messages_for_vllm[i]
     /\ (chat_pc' = "tagged" /\ chat_pc # "tagged") => chat_pc = "injected"]_vars

\* a context message was spliced in front of two user messages and only the
\* second of them got the tag
C33_Witness ==
  /\ chat_pc = "tagged"
  /\ ~think_mode
  /\ context_block # <<>>
  /\ Len(messages_for_vllm) = 3
  /\ messages_for_vllm[1] = SystemMsg(context_block)
  /\ messages_for_vllm[2].role = "user"
  /\ messages_for_vllm[3].role = "user"
  /\ ~Contains(messages_for_vllm[2].content, NoThinkTag)
  /\ IsSuffix(NoThinkTag, messages_for_vllm[3].content)

\* the values of source, file and s3_key that are present and non-empty, in
\* the order of preference
LabelCandidates(meta) ==
  SelectSeq(<<meta.source, meta.file, meta.s3_key>>, LAMBDA v : v # <<>>)

\* the header line of the i-th included chunk as it is specified
ExpectedHeader(i, r) ==
  <<"[">> \o Decimal(i) \o <<"]", " ", "S", "o", "u", "r", "c", "e", ":", " ">>
    \o (IF LabelCandidates(r.metadata) = <<>> THEN <<"u", "n", "k", "n", "o", "w", "n">>
        ELSE Head(LabelCandidates(r.metadata)))
    \o (IF r.metadata.has_page THEN <<" ", "p", ".">> \o Decimal(r.metadata.page)
        ELSE <<>>)

\* C34: the source label of a rendered chunk header is the first present,
\* non-empty value among metadata.source, metadata.file and metadata.s3_key in
\* that order, and "unknown" when none is present; the page suffix " p.{page}"
\* is rendered exactly when the metadata has a page value: the block holds,
\* for every included chunk, that header as a whole line.
C34_SourceLabel ==
  chat_pc \in {"built", "injected", "tagged"} =>
    \A i \in 1..num_chunks_sent :
      /\ Header(i, retrieved[i]) = ExpectedHeader(i, retrieved[i])
      /\ Contains(<<"\n">> \o context_block \o <<"\n">>,
                  <<"\n">> \o ExpectedHeader(i, retrieved[i]) \o <<"\n">>)

\* a chunk with source and file and a page, and a chunk with file and s3_key
\* and no page, were both rendered
C34_Witness ==
  /\ chat_pc = "built"
  /\ num_chunks_sent = 2
  /\ \E i \in 1..2 :
       /\ retrieved[i].metadata.source # <<>>
       /\ retrieved[i].metadata.file # <<>>
       /\ retrieved[i].metadata.has_page
  /\ \E i \in 1..2 :
       /\ retrieved[i].metadata.source = <<>>
       /\ retrieved[i].metadata.file # <<>>
       /\ retrieved[i].metadata.s3_key # <<>>
       /\ ~retrieved[i].metadata.has_page

\* dict.get of lines 263-264 of the chat backend on a metadata record: the
\* empty string for an absent key
MetaGet(meta, key) == IF key \in DOMAIN meta THEN meta[key] ELSE <<>>

\* an upserted item as a search result of the given score: faiss-wrap stores
\* and returns the text and the metadata dict as they were sent (lines 176,
\* 204 and 252 of its main.py), and build_context_block reads the keys
\* source, file, s3_key and page of that dict
RetrievedAs(item, score) ==
  [text |-> item.text,
   metadata |-> [source |-> MetaGet(item.metadata, "source"),
                 file |-> MetaGet(item.metadata, "file"),
                 s3_key |-> MetaGet(item.metadata, "s3_key"),
                 has_page |-> "page" \in DOMAIN item.metadata,
                 page |-> IF "page" \in DOMAIN item.metadata THEN item.metadata.page ELSE 0],
   score |-> score]

\* C35: chunks stay attributable end to end: for every chunk the chunker
\* produced and the run sent to upsert, the header rendered for it once it is
\* retrieved names the chunk's document or source locator and is never the
\* fallback label "unknown".
C35_ChunksAttributable ==
  \A i \in 1..Len(ItemsOf(posted)) :
    LET item == ItemsOf(posted)[i]
        r == RetrievedAs(item, 100)
    IN  /\ SourceOf(r.metadata) # Unknown
        /\ \/ Contains(Header(1, r), item.metadata.doc_id)
           \/ Contains(Header(1, r), item.metadata.source_uri)

\* the upsert requests sent so far are the first batches of the merged list,
\* one request per batch, in list order
SentInListOrder ==
  /\ Len(posted) <= NumBatches(Len(all_chunks), args.batch_size)
  /\ \A k \in 1..Len(posted) :
       posted[k].items = PayloadItems(batched(all_chunks, args.batch_size)[k])
  /\ \A k \in 1..(Len(posted) - 1) : posted[k].ok

\* C36: in an ingestion run no upsert request is sent until every submitted
\* document task has finished (returned its chunks or failed) and its chunks
\* have been merged; upsert batches are then sent one at a time in list
\* order, and once the upsert loop is through every chunk of the merged list
\* has been sent in exactly one batch.
C36_UpsertAfterMerge ==
  /\ posted # <<>> =>
       /\ ing_pc \in {"prepared", "exit"}
       /\ \A f \in 1..Len(futures) : futures[f].state = "merged"
       /\ SentInListOrder
  /\ (ing_pc = "exit" /\ ing_ret = "ok") => ItemsOf(posted) = PayloadItems(all_chunks)

\* the same for the batch sizes that are positive
C36_PositiveBatchSize == args.batch_size > 0 => C36_UpsertAfterMerge

\* a run over two documents that sent its three chunks in two batches
C36_PositiveWitness ==
  /\ ing_pc = "exit"
  /\ ing_ret = "ok"
  /\ Len(futures) = 2
  /\ Len(posted) = 2
  /\ Len(all_chunks) = 3

\* the orders in which the tasks of a set can be yielded
TaskOrders(S) ==
  {o \in [1..Cardinality(S) -> S] : \A i, j \in DOMAIN o : i # j => o[i] # o[j]}

\* the results of the tasks of an order, one after the other
RECURSIVE ResultsInOrder(_)
ResultsInOrder(o) ==
  IF o = <<>> THEN <<>> ELSE futures[Head(o)].result \o ResultsInOrder(Tail(o))

\* the list the upsert loop gets when the tasks are merged in the order they
\* were submitted, each task with the outcome it had in this run
SubmissionOrderList ==
  LET merged == ResultsInOrder([i \in 1..Len(futures) |-> i])
  IN  IF ~args.dry_run /\ args.max_chunks > 0 /\ Len(merged) > args.max_chunks
      THEN SubSeq(merged, 1, args.max_chunks)
      ELSE merged

\* the elements of a sequence
Elements(s) == {s[i] : i \in DOMAIN s}

\* C37: for a fixed set of input documents and fixed options (a --max-chunks
\* cap included), the set of chunks sent to upsert in a run does not depend on
\* the order in which the worker tasks complete: a run that ends normally
\* sent the same set as the run that merges the tasks in submission order;
\* and the chunks of one document are contiguous and in page order in the
\* merged list (the list is the results of the merged tasks in some order).
C37_OrderIndependent ==
  /\ (ing_pc = "exit" /\ ing_ret = "ok") =>
       Elements(ItemsOf(posted)) =
         IF args.batch_size > 0 THEN Elements(PayloadItems(SubmissionOrderList)) ELSE {}
  /\ ing_pc = "pool" =>
       \E o \in TaskOrders({i \in 1..Len(futures) : futures[i].state = "merged"}) :
         all_chunks = ResultsInOrder(o)

\* the same for the runs without a cap
C37_WithoutCap == args.max_chunks <= 0 => C37_OrderIndependent

\* a run without a cap that merged the second document before the first one
C37_WithoutCapWitness ==
  /\ ing_pc = "exit"
  /\ ing_ret = "ok"
  /\ args.max_chunks <= 0
  /\ Len(futures) = 2
  /\ futures[1].result # <<>>
  /\ futures[2].result # <<>>
  /\ all_chunks = futures[2].result \o futures[1].result
  /\ Len(ItemsOf(posted)) = Len(all_chunks)

\* the four-digit numbers of the pages a document of the model can have
PageNumber4(p) == <<"0", "0", "0">> \o <<DigitChars[p + 1]>>

\* the order of the ids of one document: that of their page numbers
IdBefore(a, b) ==
  \E p, q \in 1..MaxPages :
    /\ p < q
    /\ IsSuffix(PageNumber4(p), a)
    /\ IsSuffix(PageNumber4(q), b)

\* C38: each chunk's id, page number and source locator carry the 1-based
\* position of its page in the document's input page sequence, pages dropped
\* as too short or as duplicates being counted (they leave gaps, later pages
\* are not renumbered); within one document the chunk ids are pairwise
\* distinct and strictly increasing in output order.
C38_IdsCarryPagePosition ==
  \A f \in 1..Len(futures) :
    (futures[f].state # "pending" /\ ~futures[f].failed) =>
      LET out == futures[f].result
          pages == pages_of[f]
      IN  /\ \A i \in 1..Len(out) :
                \E p \in 1..Len(pages) :
                  /\ clean_text(pages[p]) = out[i].text
                  /\ \A q \in 1..(p - 1) : clean_text(pages[q]) # out[i].text
                  /\ out[i].metadata.page = p
                  /\ out[i].id =
                       DocId(pdf_sources[f]) \o <<"#", "p", "a", "g", "e", "-">>
                         \o PageNumber4(p)
                  /\ out[i].metadata.source_uri =
                       SourceUri(pdf_sources[f], args.use_local)
                         \o <<"#", "p", "a", "g", "e", "=">> \o <<DigitChars[p + 1]>>
          /\ \A i, j \in 1..Len(out) : i # j => out[i].id # out[j].id
          /\ \A i, j \in 1..Len(out) : i < j => IdBefore(out[i].id, out[j].id)

\* the second page of a document was dropped as too short and the chunk of
\* the third page is numbered 3
C38_Witness ==
  /\ Len(futures) = 1
  /\ futures[1].state = "finished"
  /\ Len(pages_of[1]) = 3
  /\ ~valid_chunk(clean_text(pages_of[1][2]))
  /\ Len(futures[1].result) = 2
  /\ futures[1].result[2].metadata.page = 3
  /\ IsSuffix(<<"#", "p", "a", "g", "e", "-", "0", "0", "0", "3">>, futures[1].result[2].id)

\* the second page repeats the first one and the chunk of the third page is
\* numbered 3
C38_WitnessDuplicate ==
  /\ Len(futures) = 1
  /\ futures[1].state = "finished"
  /\ pages_of[1] = <<StatementPage, StatementPageSpaced, BalancePage>>
  /\ Len(futures[1].result) = 2
  /\ futures[1].result[2].metadata.page = 3

\* C39: a page yields a chunk candidate if and only if its cleaned text has
\* at least 20 characters: every page whose cleaned text is shorter (an empty
\* page included) is dropped, a cleaned text of exactly 20 characters is
\* kept, and every chunk in the output has a text of length >= 20.
C39_ValidIffTwentyChars ==
  \A f \in 1..Len(futures) :
    (futures[f].state # "pending" /\ ~futures[f].failed) =>
      LET out == futures[f].result
          pages == pages_of[f]
      IN  /\ \A p \in 1..Len(pages) :
                (Len(clean_text(pages[p])) >= 20) <=>
                  (\E i \in 1..Len(out) : out[i].text = clean_text(pages[p]))
          /\ \A i \in 1..Len(out) : Len(out[i].text) >= 20

\* a page of 19 characters after cleaning and an empty page were dropped, a
\* page of exactly 20 characters was kept
C39_Witness ==
  /\ Len(futures) = 1
  /\ futures[1].state = "finished"
  /\ Len(pages_of[1]) = 3
  /\ Len(clean_text(pages_of[1][1])) = 19
  /\ Len(pages_of[1][1]) > 19
  /\ Len(clean_text(pages_of[1][2])) = 20
  /\ pages_of[1][3] = <<>>
  /\ Len(futures[1].result) = 1
  /\ futures[1].result[1].metadata.page = 2

====
